---- MODULE Spec2Model ----
(***************************************************************************)
(* Model of the OAuth 2.1 proxy / per-connection credential isolation      *)
(* layer of realize-mcp: the context variable holding the bearer token,    *)
(* the SSE and Streamable-HTTP entry points, and the in-memory session     *)
(* store.                                                                  *)
(*                                                                         *)
(* Conventions.  A Python str is a sequence of one-character strings, so   *)
(* that startswith and slicing are computed, not assumed.  An Optional[x]  *)
(* is a sequence of length at most one: None is << >>, a present value v   *)
(* is << v >>.                                                             *)
(***************************************************************************)
EXTENDS Integers, Sequences, FiniteSets, TLC

VARIABLES
    \* ---- context variable (oauth/context.py) ----
    ctx,        \* task -> Optional token: current_session_token in that task's Context
    status,     \* task -> "new" | "run" | "done"
    parent,     \* task -> the task that spawned it (0 is the root task)
    lastSet,    \* task -> value of that task's own most recent set/clear
    touched,    \* task -> TRUE once the task itself has called set or clear
    spawnVal,   \* task -> the spawning task's value at spawn time
    lastRead,   \* Optional [task, value]: the most recent get_session_token()
    \* ---- session store (oauth/session.py) ----
    sessions,       \* InMemorySessionManager._sessions, in dict (insertion) order
    max_sessions,   \* InMemorySessionManager._max_sessions
    now,            \* the clock read by utc_now().timestamp()
    lastOp,         \* the store operation that produced this state
    lastUse,        \* session id -> time of its most recent set_token, get_token or
                    \* matching find_session_by_token while stored; -1 when not stored
    \* ---- transport entry points (transports/sse_server.py, streamable_http_server.py) ----
    mcp_transport,  \* config.mcp_transport of the running process
    req,            \* request -> the handler's position and local variables
    lastCall,       \* Optional [req, authorization]: the outbound API call just issued
    \* ---- token proxy and refresher (oauth/token.py, oauth/refresh.py, oauth/routes.py) ----
    lastResult,     \* Optional: the call that produced this state, the upstream's
                    \* answer to it and what the call gave back to its caller
    \* ---- client-credentials provider (auth.py) ----
    cc_token,       \* ClientCredentialsAuth.token, an Optional Token
    refresh_lock,   \* ClientCredentialsAuth._refresh_lock: Optional task holding it
    pc,             \* task -> its position in get_auth_header
    header,         \* task -> Optional header get_auth_header returned to it
    requests,       \* token requests so far: issued, failed, stored
    \* ---- stateless routes (oauth/dcr.py, oauth/metadata.py, oauth/routes.py) ----
    config,         \* the settings the routes read from realize.config.config
    \* ---- concurrent connections on one store (oauth/refresh.py, oauth/token.py) ----
    conn,           \* task -> the call it runs, its position and its local variables
    store_lock,     \* InMemorySessionManager._lock: the tasks that called acquire(),
                    \* in order; the first one holds the lock
    invalidated     \* session ids invalidated and not stored again by a later exchange

ctxVars == <<ctx, status, parent, lastSet, touched, spawnVal, lastRead>>

storeVars == <<sessions, max_sessions, now, lastOp, lastUse>>

trVars == <<mcp_transport, req, lastCall>>

pxVars == <<lastResult>>

ccVars == <<cc_token, refresh_lock, pc, header, requests>>

rtVars == <<config>>

cnVars == <<conn, store_lock, invalidated>>

vars == <<ctx, status, parent, lastSet, touched, spawnVal, lastRead,
          sessions, max_sessions, now, lastOp, lastUse,
          mcp_transport, req, lastCall, lastResult,
          cc_token, refresh_lock, pc, header, requests, config,
                conn, store_lock, invalidated>>

----------------------------------------------------------------------------
(* Bounds *)

MaxTasks == 2

MaxCap == 2

MaxTime == 1

MaxReq == 2

MaxParams == 2

MaxConn == 2

----------------------------------------------------------------------------
(* Values *)

None == << >>

Some(v) == << v >>

TokA == <<"A">>

TokB == <<"B">>

Tokens == {TokA, TokB}

----------------------------------------------------------------------------
(* oauth/context.py: the ContextVar.  Every task owns a Context; a task    *)
(* created with asyncio.create_task / gather runs in a copy of the         *)
(* creating task's Context, taken when the task is created.                *)

Tasks == 0..MaxTasks

\* A shared module-level global instead of a ContextVar.
GlobalSet(c, t, v) == [u \in DOMAIN c |-> v]

\* current_session_token.set(v) in task t: only t's Context changes.
ContextVarSet(c, t, v) == [c EXCEPT ![t] = v]

\* current_session_token.get() in task t (default None).
ContextVarGet(c, t) == c[t]

\* A new task started in an empty Context instead of a copy.
FreshContext(c, p) == None

\* The value a task created by p starts with: copy_context() at creation.
CopyContext(c, p) == c[p]

CtxInit ==
    /\ ctx = [t \in Tasks |-> None]
    /\ status = [t \in Tasks |-> IF t = 0 THEN "run" ELSE "new"]
    /\ parent = [t \in Tasks |-> 0]
    /\ lastSet = [t \in Tasks |-> None]
    /\ touched = [t \in Tasks |-> FALSE]
    /\ spawnVal = [t \in Tasks |-> None]
    /\ lastRead = None
    /\ sessions = << >>
    /\ max_sessions = 0
    /\ now = 0
    /\ lastOp = << >>
    /\ lastUse = << >>
    /\ mcp_transport = "stdio" /\ req = << >> /\ lastCall = None
    /\ lastResult = None
    /\ cc_token = None /\ refresh_lock = None /\ pc = << >> /\ header = << >>
    /\ requests = << >> /\ config = << >>
    /\ conn = << >> /\ store_lock = << >> /\ invalidated = {}

\* asyncio.create_task(child()) / asyncio.gather(...) called by task p.
Spawn(p, c) ==
    /\ status[p] = "run"
    /\ status[c] = "new"
    /\ status' = [status EXCEPT ![c] = "run"]
    /\ parent' = [parent EXCEPT ![c] = p]
    /\ ctx' = [ctx EXCEPT ![c] = CopyContext(ctx, p)]
    /\ spawnVal' = [spawnVal EXCEPT ![c] = ctx[p]]
    /\ UNCHANGED <<lastSet, touched, lastRead>>

\* set_session_token(token) in task t.
SetSessionToken(t, tok) ==
    /\ status[t] = "run"
    /\ ctx' = ContextVarSet(ctx, t, Some(tok))
    /\ lastSet' = [lastSet EXCEPT ![t] = Some(tok)]
    /\ touched' = [touched EXCEPT ![t] = TRUE]
    /\ lastRead' = IF lastRead # None /\ lastRead[1].task = t THEN None ELSE lastRead
    /\ UNCHANGED <<status, parent, spawnVal>>

\* clear_session_token() in task t.
ClearSessionToken(t) ==
    /\ status[t] = "run"
    /\ ctx' = ContextVarSet(ctx, t, None)
    /\ lastSet' = [lastSet EXCEPT ![t] = None]
    /\ touched' = [touched EXCEPT ![t] = TRUE]
    /\ lastRead' = IF lastRead # None /\ lastRead[1].task = t THEN None ELSE lastRead
    /\ UNCHANGED <<status, parent, spawnVal>>

\* get_session_token() in task t.
GetSessionToken(t) ==
    /\ status[t] = "run"
    /\ lastRead' = Some([task |-> t, value |-> ContextVarGet(ctx, t)])
    /\ UNCHANGED <<ctx, status, parent, lastSet, touched, spawnVal>>

\* Task t returns; its Context is dropped with it.
Finish(t) ==
    /\ t # 0
    /\ status[t] = "run"
    /\ status' = [status EXCEPT ![t] = "done"]
    /\ ctx' = [ctx EXCEPT ![t] = None]
    /\ lastSet' = [lastSet EXCEPT ![t] = None]
    /\ touched' = [touched EXCEPT ![t] = FALSE]
    /\ spawnVal' = [spawnVal EXCEPT ![t] = None]
    /\ lastRead' = IF lastRead # None /\ lastRead[1].task = t THEN None ELSE lastRead
    /\ UNCHANGED parent

CtxNext ==
    \/ \E p \in Tasks, c \in Tasks \ {0} : Spawn(p, c) /\ UNCHANGED <<storeVars, trVars, pxVars, ccVars, rtVars, cnVars>>
    \/ \E t \in Tasks, tok \in Tokens : SetSessionToken(t, tok) /\ UNCHANGED <<storeVars, trVars, pxVars, ccVars, rtVars, cnVars>>
    \/ \E t \in Tasks : ClearSessionToken(t) /\ UNCHANGED <<storeVars, trVars, pxVars, ccVars, rtVars, cnVars>>
    \/ \E t \in Tasks : GetSessionToken(t) /\ UNCHANGED <<storeVars, trVars, pxVars, ccVars, rtVars, cnVars>>
    \/ \E t \in Tasks : Finish(t) /\ UNCHANGED <<storeVars, trVars, pxVars, ccVars, rtVars, cnVars>>

SpecCtx == CtxInit /\ [][CtxNext]_vars

----------------------------------------------------------------------------
(* oauth/session.py: InMemorySessionManager.  Every method body runs       *)
(* inside "async with self._lock" and contains no await, so each call is   *)
(* one atomic step and concurrent callers interleave call by call.         *)

SessionIds == {"s1", "s2", "s3"}

AccessTokens == {TokA, TokB}

\* models.OAuth21Token as built by the callers of set_token.
OAuth21Token(at, rt) ==
    [access_token |-> at, token_type |-> "Bearer", expires_in |-> 3600,
     refresh_token |-> rt, scope |-> None, session_id |-> None,
     created_at |-> Some(0)]

\* The tokens callers hand to set_token, one with and one without a
\* refresh_token; the same token may be stored under several session ids.
CallerTokens == {OAuth21Token(TokA, Some(<<"r">>)), OAuth21Token(TokB, None)}

\* SessionData(token=token): both timestamps default to utc_now().timestamp().
SessionData(sid, tok, t) ==
    [sid |-> sid, token |-> tok, created_at |-> t, last_accessed |-> t]

Ids(s) == {s[i].sid : i \in 1..Len(s)}

IndexOf(s, sid) == CHOOSE i \in 1..Len(s) : s[i].sid = sid

RemoveAt(s, i) == SubSeq(s, 1, i - 1) \o SubSeq(s, i + 1, Len(s))

\* Eviction of the first inserted session instead of the least recently used.
FirstInserted(s) == 1

\* min(self._sessions, key=last_accessed): the first key in dict order among
\* those with the smallest last_accessed.
OldestIndex(s) ==
    CHOOSE i \in 1..Len(s) :
        /\ \A j \in 1..Len(s) : s[i].last_accessed <= s[j].last_accessed
        /\ \A j \in 1..(i - 1) : s[j].last_accessed > s[i].last_accessed

\* A limit test that lets the store grow one past the maximum.
OverLimitStrict(s, sid, n) == sid \notin Ids(s) /\ Len(s) > n

\* session_id not in self._sessions and len(self._sessions) >= self._max_sessions
AtLimit(s, sid, n) == sid \notin Ids(s) /\ Len(s) >= n

\* A scan that returns the first session without comparing its token.
AnyFirst(s, at) == IF Len(s) = 0 THEN 0 ELSE 1

\* The linear scan of find_session_by_token: index of the first session, in
\* dict order, whose token has this access_token; 0 when there is none.
FirstMatch(s, at) ==
    LET hits == {i \in 1..Len(s) : s[i].token.access_token = at}
    IN  IF hits = {} THEN 0 ELSE CHOOSE i \in hits : \A j \in hits : i <= j

\* The stored token left without its back-reference.
NoStamp(tok, sid) == tok

\* token.session_id = session_id
Stamp(tok, sid) == [tok EXCEPT !.session_id = Some(sid)]

\* What the model records of the call that produced the current state:
\* the method, whether it raised, how many sessions it removed and, for an
\* eviction, the dict position of the evicted session.
Op(op, raised, removed, pos) ==
    Some([op |-> op, raised |-> raised, removed |-> removed, pos |-> pos])

\* get_token: the value returned.
GetTokenRet(s, sid) ==
    IF sid \in Ids(s) THEN Some(s[IndexOf(s, sid)].token) ELSE None

\* get_token: the store afterwards (last_accessed of a hit is refreshed).
GetTokenSessions(s, sid, t) ==
    IF sid \in Ids(s) THEN [s EXCEPT ![IndexOf(s, sid)].last_accessed = t] ELSE s

\* set_token raises ValueError exactly when min() runs over an empty dict.
SetTokenRaises(s, sid, n) == AtLimit(s, sid, n) /\ Len(s) = 0

\* set_token: the store afterwards, when it does not raise.
SetTokenSessions(s, sid, tok, n, t) ==
    LET kept == IF AtLimit(s, sid, n) THEN RemoveAt(s, OldestIndex(s)) ELSE s
        new == SessionData(sid, Stamp(tok, sid), t)
    IN  IF sid \in Ids(kept)
        THEN [kept EXCEPT ![IndexOf(kept, sid)] = new]
        ELSE Append(kept, new)

\* A delete that removes nothing.
DeleteNothing(s, sid) == s

\* A delete that empties the store.
ClearAll(s, sid) == << >>

\* delete_session: self._sessions.pop(session_id, None)
DeleteSessions(s, sid) ==
    IF sid \in Ids(s) THEN RemoveAt(s, IndexOf(s, sid)) ELSE s

\* A sweep that also removes the sessions idle for exactly m.
IdleAtLeast(s, m, t) ==
    {s[i].sid : i \in {j \in 1..Len(s) : (t - s[j].last_accessed) >= m}}

\* OAuth21Auth.invalidate_session: the store afterwards.
InvalidateSessions(s, sid) == DeleteSessions(s, sid)

\* cleanup_expired: the sessions the sweep removes.
ExpiredIds(s, m, t) ==
    {s[i].sid : i \in {j \in 1..Len(s) : (t - s[j].last_accessed) > m}}

\* cleanup_expired: the store afterwards.
CleanupSessions(s, m, t) ==
    SelectSeq(s, LAMBDA d : d.sid \notin ExpiredIds(s, m, t))

\* cleanup_expired: the count returned.
CleanupRet(s, m, t) == Cardinality(ExpiredIds(s, m, t))

\* find_session_by_token: the value returned.
FindRet(s, at) ==
    IF FirstMatch(s, at) # 0 THEN Some(s[FirstMatch(s, at)].sid) ELSE None

\* find_session_by_token: the store afterwards (the match is touched).
FindSessions(s, at, t) ==
    IF FirstMatch(s, at) # 0
    THEN [s EXCEPT ![FirstMatch(s, at)].last_accessed = t]
    ELSE s

\* InMemorySessionManager(max_sessions=n)
StoreInit ==
    /\ sessions = << >>
    /\ max_sessions \in 0..MaxCap
    /\ now = 0
    /\ lastOp = None
    /\ lastUse = [sid \in SessionIds |-> -1]
    /\ ctx = << >> /\ status = << >> /\ parent = << >> /\ lastSet = << >>
    /\ touched = << >> /\ spawnVal = << >> /\ lastRead = None
    /\ mcp_transport = "stdio" /\ req = << >> /\ lastCall = None
    /\ lastResult = None
    /\ cc_token = None /\ refresh_lock = None /\ pc = << >> /\ header = << >>
    /\ requests = << >> /\ config = << >>
    /\ conn = << >> /\ store_lock = << >> /\ invalidated = {}

\* The bookkeeping of lastUse: the sessions in `used` were just used, those
\* no longer stored are forgotten.
Used(used) ==
    lastUse' = [sid \in SessionIds |->
                   IF sid \notin Ids(sessions') THEN -1
                   ELSE IF sid \in used THEN now
                   ELSE lastUse[sid]]

\* get_token(session_id)
GetToken(sid) ==
    /\ sessions' = GetTokenSessions(sessions, sid, now)
    /\ lastOp' = Op("get_token", FALSE, 0, 0)
    /\ Used({sid})
    /\ UNCHANGED <<max_sessions, now>>

\* set_token(session_id, token)
SetToken(sid, tok) ==
    /\ IF SetTokenRaises(sessions, sid, max_sessions)
       THEN /\ sessions' = sessions
            /\ lastOp' = Op("set_token", TRUE, 0, 0)
            /\ Used({})
       ELSE /\ sessions' = SetTokenSessions(sessions, sid, tok, max_sessions, now)
            /\ LET gone == {i \in 1..Len(sessions) : sessions[i].sid \notin Ids(sessions')}
               IN  lastOp' = Op("set_token", FALSE, Cardinality(gone),
                                IF gone = {} THEN 0 ELSE CHOOSE i \in gone : TRUE)
            /\ Used({sid})
    /\ UNCHANGED <<max_sessions, now>>

\* delete_session(session_id)
DeleteSession(sid) ==
    /\ sessions' = DeleteSessions(sessions, sid)
    /\ lastOp' = Op("delete_session", FALSE, Cardinality(Ids(sessions) \cap {sid}), 0)
    /\ Used({})
    /\ UNCHANGED <<max_sessions, now>>

\* OAuth21Auth.invalidate_session(session_id)
InvalidateSession(sid) ==
    /\ sessions' = InvalidateSessions(sessions, sid)
    /\ lastOp' = Op("invalidate_session", FALSE, Cardinality(Ids(sessions) \cap {sid}), 0)
    /\ Used({})
    /\ UNCHANGED <<max_sessions, now>>

\* get_all_sessions()
GetAllSessions ==
    /\ lastOp' = Op("get_all_sessions", FALSE, 0, 0)
    /\ UNCHANGED <<sessions, max_sessions, now, lastUse>>

\* cleanup_expired(max_age_seconds)
CleanupExpired(m) ==
    /\ sessions' = CleanupSessions(sessions, m, now)
    /\ lastOp' = Op("cleanup_expired", FALSE, CleanupRet(sessions, m, now), 0)
    /\ Used({})
    /\ UNCHANGED <<max_sessions, now>>

\* find_session_by_token(access_token)
FindSessionByToken(at) ==
    /\ sessions' = FindSessions(sessions, at, now)
    /\ lastOp' = Op("find_session_by_token", FALSE, 0, 0)
    /\ Used({sid \in SessionIds : FindRet(sessions, at) = Some(sid)})
    /\ UNCHANGED <<max_sessions, now>>

\* Time passes between two calls.
Tick ==
    /\ now < MaxTime
    /\ now' = now + 1
    /\ lastOp' = Op("tick", FALSE, 0, 0)
    /\ UNCHANGED <<sessions, max_sessions, lastUse>>

StoreNext ==
    \/ \E sid \in SessionIds : GetToken(sid) /\ UNCHANGED <<ctxVars, trVars, pxVars, ccVars, rtVars, cnVars>>
    \/ \E sid \in SessionIds, tok \in CallerTokens : SetToken(sid, tok) /\ UNCHANGED <<ctxVars, trVars, pxVars, ccVars, rtVars, cnVars>>
    \/ \E sid \in SessionIds : DeleteSession(sid) /\ UNCHANGED <<ctxVars, trVars, pxVars, ccVars, rtVars, cnVars>>
    \/ \E sid \in SessionIds : InvalidateSession(sid) /\ UNCHANGED <<ctxVars, trVars, pxVars, ccVars, rtVars, cnVars>>
    \/ GetAllSessions /\ UNCHANGED <<ctxVars, trVars, pxVars, ccVars, rtVars, cnVars>>
    \/ \E m \in {0, 1, MaxTime + 1} : CleanupExpired(m) /\ UNCHANGED <<ctxVars, trVars, pxVars, ccVars, rtVars, cnVars>>
    \/ \E at \in AccessTokens : FindSessionByToken(at) /\ UNCHANGED <<ctxVars, trVars, pxVars, ccVars, rtVars, cnVars>>
    \/ Tick /\ UNCHANGED <<ctxVars, trVars, pxVars, ccVars, rtVars, cnVars>>

SpecStore == StoreInit /\ [][StoreNext]_vars

----------------------------------------------------------------------------
(* transports/sse_server.py and transports/streamable_http_server.py: the  *)
(* two entry points.  Each request is handled in a task of its own; the    *)
(* handler's steps are cut at its awaits and at the places it can raise.   *)

Requests == 1..MaxReq

\* InMemorySessionManager.DEFAULT_MAX_SESSIONS
DEFAULT_MAX_SESSIONS == 1000

\* "Bearer "
BearerPrefix == <<"B", "e", "a", "r", "e", "r", " ">>

\* The Authorization headers clients send: none (headers.get gives ""),
\* another scheme, an empty bearer token, and two bearer tokens.
Headers ==
    {<< >>, <<"B", "a", "s", "i", "c", " ", "x">>, BearerPrefix,
     BearerPrefix \o TokA, BearerPrefix \o TokB}

\* The session id token exchanges store tokens under (a later exchange
\* replaces the token of an earlier one).
ExchangeIds == {"s1"}

\* The access tokens the upstream issues (RFC 6749: never empty).
IssuedTokens == {TokA, TokB}

\* The process-wide client-credentials token of ClientCredentialsAuth.
CCToken == <<"C", "C">>

\* auth_header.startswith(p)
StartsWith(h, p) == Len(h) >= Len(p) /\ SubSeq(h, 1, Len(p)) = p

\* The slice taken one character early.
BearerTokenFrom6(h) == SubSeq(h, 7, Len(h))

\* auth_header[7:]
BearerToken(h) == SubSeq(h, 8, Len(h))

\* An empty-token test that never fires.
NeverEmpty(t) == FALSE

\* "if not token" of the Streamable-HTTP entry point
EmptyToken(t) == Len(t) = 0

\* 401 Response of both entry points; www is the WWW-Authenticate header,
\* part by part.
Unauthorized ==
    [status |-> 401,
     www |-> <<"Bearer", "resource_metadata=/.well-known/oauth-protected-resource">>]

\* 401 Response of the SSE entry point for a token no session holds.
UnauthorizedInvalidToken ==
    [status |-> 401,
     www |-> <<"Bearer", "resource_metadata=/.well-known/oauth-protected-resource",
               "error=invalid_token", "error_description=Token not recognized">>]

NewRequest ==
    [pc |-> "new", header |-> << >>, token |-> None, session_id |-> None,
     inStore |-> FALSE, resp |-> None, exit |-> "-"]

\* BearerTokenAuth.get_auth_header() in a task whose context holds v.
BearerTokenAuthHeader(v) ==
    IF v = None \/ v = Some(<< >>) THEN None ELSE Some(BearerPrefix \o v[1])

\* ClientCredentialsAuth.get_auth_header(): the shared process-wide token.
ClientCredentialsAuthHeader == Some(BearerPrefix \o CCToken)

\* get_auth_provider()
GetAuthProvider(transport) ==
    IF transport = "streamable-http" THEN "bearer" ELSE "client_credentials"

\* The application serving /sse or /mcp has just started.
TransportInit ==
    /\ mcp_transport \in {"sse", "streamable-http"}
    /\ req = [r \in Requests |-> NewRequest]
    /\ lastCall = None
    /\ ctx = [r \in Requests |-> None]
    /\ lastRead = None
    /\ sessions = << >>
    /\ max_sessions = DEFAULT_MAX_SESSIONS
    /\ now = 0
    /\ lastOp = None
    /\ lastUse = [sid \in SessionIds |-> -1]
    /\ status = << >> /\ parent = << >> /\ lastSet = << >>
    /\ touched = << >> /\ spawnVal = << >>
    /\ lastResult = None
    /\ cc_token = None /\ refresh_lock = None /\ pc = << >> /\ header = << >>
    /\ requests = << >> /\ config = << >>
    /\ conn = << >> /\ store_lock = << >> /\ invalidated = {}

\* What every step that is not an observation leaves behind.
Quiet == lastRead' = None /\ lastCall' = None

\* A client sends GET /sse or POST /mcp with Authorization header h.
Arrive(r, h) ==
    /\ req[r].pc = "new"
    /\ req' = [req EXCEPT ![r] = [NewRequest EXCEPT !.pc = "start", !.header = h]]
    /\ Quiet
    /\ UNCHANGED <<ctx, sessions>>

\* sse_endpoint up to its first await: the scheme test.
SseCheckHeader(r) ==
    /\ mcp_transport = "sse"
    /\ req[r].pc = "start"
    /\ IF ~StartsWith(req[r].header, BearerPrefix)
       THEN req' = [req EXCEPT ![r].pc = "done", ![r].exit = "rejected",
                               ![r].resp = Some(Unauthorized)]
       ELSE req' = [req EXCEPT ![r].pc = "lookup",
                               ![r].token = Some(BearerToken(req[r].header))]
    /\ Quiet
    /\ UNCHANGED <<ctx, sessions>>

\* sse_endpoint: await find_session_by_token(token), then the rejection or
\* set_session_token(token).
SseLookup(r) ==
    /\ mcp_transport = "sse"
    /\ req[r].pc = "lookup"
    /\ LET token == req[r].token[1]
           sid == FindRet(sessions, token)
           held == \E i \in 1..Len(sessions) : sessions[i].token.access_token = token
       IN  /\ sessions' = FindSessions(sessions, token, now)
           /\ IF sid = None
              THEN /\ req' = [req EXCEPT ![r].pc = "done", ![r].exit = "rejected",
                                         ![r].session_id = sid, ![r].inStore = held,
                                         ![r].resp = Some(UnauthorizedInvalidToken)]
                   /\ ctx' = ctx
              ELSE /\ req' = [req EXCEPT ![r].pc = "bound", ![r].session_id = sid,
                                         ![r].inStore = held]
                   /\ ctx' = ContextVarSet(ctx, r, Some(token))
    /\ Quiet

\* sse_endpoint between set_session_token and the try block: the import of
\* the server and the construction of InitializationOptions, which either
\* complete (the try block is entered and server.run starts) or raise.
SseInitOptions(r, ok) ==
    /\ mcp_transport = "sse"
    /\ req[r].pc = "bound"
    /\ IF ok
       THEN req' = [req EXCEPT ![r].pc = "engine"]
       ELSE req' = [req EXCEPT ![r].pc = "done", ![r].exit = "raised_before_try"]
    /\ Quiet
    /\ UNCHANGED <<ctx, sessions>>

\* StreamableHTTPEndpoint.__call__ up to handle_request: the scheme test,
\* the empty-token test, set_session_token and the entry of the try block.
HttpHandle(r) ==
    /\ mcp_transport = "streamable-http"
    /\ req[r].pc = "start"
    /\ IF ~StartsWith(req[r].header, BearerPrefix)
       THEN /\ req' = [req EXCEPT ![r].pc = "done", ![r].exit = "rejected",
                                  ![r].resp = Some(Unauthorized)]
            /\ ctx' = ctx
       ELSE IF EmptyToken(BearerToken(req[r].header))
       THEN /\ req' = [req EXCEPT ![r].pc = "done", ![r].exit = "rejected",
                                  ![r].token = Some(<< >>),
                                  ![r].resp = Some(Unauthorized)]
            /\ ctx' = ctx
       ELSE /\ req' = [req EXCEPT ![r].pc = "engine",
                                  ![r].token = Some(BearerToken(req[r].header))]
            /\ ctx' = ContextVarSet(ctx, r, Some(BearerToken(req[r].header)))
    /\ Quiet
    /\ UNCHANGED sessions

\* The MCP engine, handling request r, reads get_session_token().
EngineRead(r) ==
    /\ req[r].pc = "engine"
    /\ lastRead' = Some([task |-> r, value |-> ContextVarGet(ctx, r)])
    /\ lastCall' = None
    /\ UNCHANGED <<req, ctx, sessions>>

\* A tool handler of request r calls RealizeClient.request: the header comes
\* from get_auth_provider(); without one the call raises ValueError and
\* nothing is sent.
EngineApiCall(r) ==
    /\ req[r].pc = "engine"
    /\ LET auth_header ==
               IF GetAuthProvider(mcp_transport) = "bearer"
               THEN BearerTokenAuthHeader(ContextVarGet(ctx, r))
               ELSE ClientCredentialsAuthHeader
       IN  lastCall' = IF auth_header = None THEN None
                       ELSE Some([req |-> r, authorization |-> auth_header[1]])
    /\ lastRead' = None
    /\ UNCHANGED <<req, ctx, sessions>>

\* The engine returns, raises or is cancelled by a connection drop: the
\* finally block runs clear_session_token().
EngineExit(r, how) ==
    /\ req[r].pc = "engine"
    /\ ctx' = ContextVarSet(ctx, r, None)
    /\ req' = [req EXCEPT ![r].pc = "done", ![r].exit = how]
    /\ Quiet
    /\ UNCHANGED sessions

\* The handler's task is gone; the slot serves the next request.
Reap(r) ==
    /\ req[r].pc = "done"
    /\ req' = [req EXCEPT ![r] = NewRequest]
    /\ ctx' = [ctx EXCEPT ![r] = None]
    /\ Quiet
    /\ UNCHANGED sessions

\* A token exchange succeeds: TokenProxy stores the upstream's token.
TokenExchange(sid, at) ==
    /\ mcp_transport = "sse"
    /\ sessions' = SetTokenSessions(sessions, sid, OAuth21Token(at, None),
                                    max_sessions, now)
    /\ Quiet
    /\ UNCHANGED <<req, ctx>>

\* A session is invalidated or dropped after a failed refresh.
SessionDropped(sid) ==
    /\ mcp_transport = "sse"
    /\ sid \in Ids(sessions)
    /\ sessions' = DeleteSessions(sessions, sid)
    /\ Quiet
    /\ UNCHANGED <<req, ctx>>

TransportFrame ==
    UNCHANGED <<status, parent, lastSet, touched, spawnVal,
                max_sessions, now, lastOp, lastUse, mcp_transport, lastResult,
                cc_token, refresh_lock, pc, header, requests, config,
                conn, store_lock, invalidated>>

TransportNext ==
    \/ \E r \in Requests, h \in Headers : Arrive(r, h) /\ TransportFrame
    \/ \E r \in Requests : SseCheckHeader(r) /\ TransportFrame
    \/ \E r \in Requests : SseLookup(r) /\ TransportFrame
    \/ \E r \in Requests, ok \in BOOLEAN : SseInitOptions(r, ok) /\ TransportFrame
    \/ \E r \in Requests : HttpHandle(r) /\ TransportFrame
    \/ \E r \in Requests : EngineRead(r) /\ TransportFrame
    \/ \E r \in Requests : EngineApiCall(r) /\ TransportFrame
    \/ \E r \in Requests, how \in {"returned", "raised", "dropped"} :
          EngineExit(r, how) /\ TransportFrame
    \/ \E r \in Requests : Reap(r) /\ TransportFrame
    \/ \E sid \in ExchangeIds, at \in IssuedTokens : TokenExchange(sid, at) /\ TransportFrame
    \/ \E sid \in ExchangeIds : SessionDropped(sid) /\ TransportFrame

SpecTransport == TransportInit /\ [][TransportNext]_vars

----------------------------------------------------------------------------
(* oauth/token.py, oauth/refresh.py and oauth/oauth21_auth.py: the token   *)
(* proxy, the refresher and the session-aware provider.  The               *)
(* upstream authorization server is the environment: every request sent    *)
(* to it gets one of the answers it can give.  A JSON object is a record   *)
(* whose absent keys are None.                                             *)

\* config.oauth_refresh_buffer_seconds
oauth_refresh_buffer_seconds == 60

\* default_expires_in of TokenProxy._create_token
default_expires_in == 3600

\* The session ids the proxy and the refresher are called with.
PxSessionIds == {"s1", "s2"}

\* A test that finds every value truthy.
NeverFalsy(x) == FALSE

\* "not x" for an Optional[str]: None and "" are both falsy.
Falsy(x) == x = None \/ x = Some(<< >>)

\* A JSON object of the token endpoint, with the keys the proxy looks at.
Json(at, ei, rt, err, desc) ==
    [access_token |-> at, expires_in |-> ei, refresh_token |-> rt,
     error |-> err, error_description |-> desc]

EmptyJson == Json(None, None, None, None, None)

\* An answer of the upstream: `error` is the text of the httpx.RequestError
\* when the request failed (connection failure, timeout); otherwise the
\* status code, whether Content-Type is application/json, whether the body
\* parses as JSON, the parsed body and the raw response text.
Response(status_code, json_ct, parses, body, text) ==
    [error |-> None, status |-> status_code, json_ct |-> json_ct, parses |-> parses,
     body |-> body, text |-> text]

RequestError(text) ==
    [error |-> Some(text), status |-> 0, json_ct |-> FALSE, parses |-> FALSE,
     body |-> EmptyJson, text |-> ""]

\* The 200 answers: a token that expires two buffer lengths after it was
\* issued, with and without a refresh_token; a body without access_token;
\* a non-positive expires_in; a body that is not JSON.
Upstream200 ==
    {Response(200, TRUE, TRUE, Json(Some(TokA), Some(120), Some(<<"r">>), None, None), "raw"),
     Response(200, TRUE, TRUE, Json(Some(TokB), Some(120), None, None, None), "raw"),
     Response(200, TRUE, TRUE, EmptyJson, "raw"),
     Response(200, TRUE, TRUE, Json(Some(TokA), Some(0), None, None, None), "raw"),
     Response(200, TRUE, FALSE, EmptyJson, "raw")}

\* The error answers: a JSON object with error_description and error, with
\* error only, with neither; a body that is not declared JSON; a body
\* declared JSON that does not parse.
UpstreamErrors ==
    {Response(400, TRUE, TRUE, Json(None, None, None, Some("invalid_grant"), Some("Refresh token expired")), "raw"),
     Response(400, TRUE, TRUE, Json(None, None, None, Some("invalid_grant"), None), "raw"),
     Response(400, TRUE, TRUE, EmptyJson, "raw"),
     Response(400, FALSE, FALSE, EmptyJson, "raw"),
     Response(400, TRUE, FALSE, EmptyJson, "raw")}

\* The failures to reach the upstream, differing only in the exception text.
UpstreamFailures == {RequestError("Connection refused"), RequestError("timed out")}

Upstream == Upstream200 \cup UpstreamErrors \cup UpstreamFailures

\* The upstream when no request reaches it.
Unasked == RequestError("")

\* issubclass(e, ValueError): json.JSONDecodeError and pydantic's
\* ValidationError derive from ValueError, KeyError does not.
IsValueError(e) == e \in {"ValueError", "JSONDecodeError", "ValidationError"}

\* A refresher that only treats TokenProxyError as a failed refresh.
CatchesProxyErrorOnly(e) == e = "TokenProxyError"

\* except (TokenProxyError, ValueError) of ensure_valid_token
Catches(e) == e = "TokenProxyError" \/ IsValueError(e)

\* A token that keeps the refresh_token the refresh was asked with.
PreviousRefreshToken(token_data) == Some(<<"r">>)

\* token_data.get("refresh_token"): the response's value, None without one.
RefreshTokenOf(token_data) == token_data.refresh_token

\* _create_token(token_data): token_data["access_token"] raises KeyError
\* when the key is absent, the expires_in validator raises ValidationError
\* when the value is not positive.
CreateToken(body, t) ==
    LET ei == IF body.expires_in = None THEN default_expires_in ELSE body.expires_in[1]
    IN  IF body.access_token = None THEN [raised |-> Some("KeyError"), token |-> None]
        ELSE IF ei <= 0 THEN [raised |-> Some("ValidationError"), token |-> None]
        ELSE [raised |-> None,
              token |-> Some([access_token |-> body.access_token[1],
                              token_type |-> "Bearer", expires_in |-> ei,
                              refresh_token |-> RefreshTokenOf(body), scope |-> None,
                              session_id |-> None, created_at |-> Some(t)])]

\* An expiry test that finds every token expired.
AlwaysExpired(tok, buffer, t) == TRUE

\* An expiry test that ignores the buffer.
ExpiredWithoutBuffer(tok, buffer, t) ==
    tok.created_at = None \/ t >= tok.created_at[1] + tok.expires_in

\* OAuth21Token.is_expired(buffer_seconds)
IsExpired(tok, buffer, t) ==
    tok.created_at = None \/ t >= (tok.created_at[1] + tok.expires_in) - buffer

\* What a call gave back: the value returned or the exception raised (with
\* its message), the form data sent to the upstream if a request was sent,
\* and the store afterwards.
Result(ret, raised, msg, sent, s) ==
    [ret |-> ret, raised |-> raised, msg |-> msg, sent |-> sent, sessions |-> s]

\* The arguments of exchange_token the model varies.
Args(grant_type, session_id, code, redirect_uri, refresh_token) ==
    [grant_type |-> grant_type, session_id |-> session_id, code |-> code,
     redirect_uri |-> redirect_uri, refresh_token |-> refresh_token]

\* Absent, empty and present values of an Optional[str] argument.
OptStr(v) == {None, Some(<< >>), Some(v)}

ExchangeArgs ==
    {Args("authorization_code", sid, c, u, None) :
        sid \in PxSessionIds, c \in OptStr(<<"c">>), u \in OptStr(<<"u">>)}
    \cup {Args("refresh_token", sid, None, None, rt) :
        sid \in PxSessionIds, rt \in OptStr(<<"r">>)}
    \cup {Args("password", sid, None, None, None) : sid \in PxSessionIds}

\* Checks that only notice an absent argument, not an empty one.
MissingOnlyNone(a) ==
    IF a.grant_type = "authorization_code"
    THEN a.code = None \/ a.redirect_uri = None
    ELSE IF a.grant_type = "refresh_token"
    THEN a.refresh_token = None
    ELSE TRUE

\* exchange_token: the local checks of the grant's required fields.
MissingParameter(a) ==
    IF a.grant_type = "authorization_code"
    THEN Falsy(a.code) \/ Falsy(a.redirect_uri)
    ELSE IF a.grant_type = "refresh_token"
    THEN Falsy(a.refresh_token)
    ELSE TRUE

\* exchange_token: the message of the ValueError of the first failing check.
PreconditionMsg(a) ==
    IF a.grant_type = "authorization_code"
    THEN IF Falsy(a.code) THEN "code required for authorization_code grant"
         ELSE "redirect_uri required for authorization_code grant"
    ELSE IF a.grant_type = "refresh_token"
    THEN "refresh_token required for refresh_token grant"
    ELSE "Unsupported grant_type"

\* The answers an exchange_token call can meet: the upstream only answers
\* a request that is sent.
Answers(a) == IF MissingParameter(a) THEN {Unasked} ELSE Upstream

\* exchange_token: the form data posted to the upstream.
ExchangeData(a) ==
    [grant_type |-> a.grant_type, code |-> a.code, redirect_uri |-> a.redirect_uri,
     refresh_token |-> a.refresh_token]

\* error_data.get("error_description", error_data.get("error", response.text))
\* with error_data = {} when the body is not declared JSON.
ErrorMsg(resp) ==
    LET error_data == IF resp.json_ct THEN resp.body ELSE EmptyJson
    IN  IF error_data.error_description # None THEN error_data.error_description[1]
        ELSE IF error_data.error # None THEN error_data.error[1]
        ELSE resp.text

\* An exchange that stores the new token under a fixed session id.
StoreUnderFirst(a) == "s1"

\* The session id exchange_token stores the new token under.
StoreUnder(a) == a.session_id

\* TokenProxy.exchange_token(grant_type, session_id, ...) when the upstream
\* answers resp.
ExchangeToken(s, a, resp, n, t) ==
    LET data == Some(ExchangeData(a))
        made == CreateToken(resp.body, t)
    IN  IF MissingParameter(a)
        THEN Result(None, Some("ValueError"), <<PreconditionMsg(a)>>, None, s)
        ELSE IF resp.error # None
        THEN Result(None, Some("TokenProxyError"),
                    <<"Failed to connect to auth server: ", resp.error[1]>>, data, s)
        ELSE IF resp.status # 200
        THEN IF resp.json_ct /\ ~resp.parses
             THEN Result(None, Some("JSONDecodeError"), << >>, data, s)
             ELSE Result(None, Some("TokenProxyError"),
                         <<"Token exchange failed: ", ErrorMsg(resp)>>, data, s)
        ELSE IF ~resp.parses
        THEN Result(None, Some("JSONDecodeError"), << >>, data, s)
        ELSE IF made.raised # None
        THEN Result(None, made.raised, << >>, data, s)
        ELSE IF SetTokenRaises(s, StoreUnder(a), n)
        THEN Result(None, Some("ValueError"), << >>, data, s)
        ELSE Result(Some(Stamp(made.token[1], StoreUnder(a))), None, << >>, data,
                    SetTokenSessions(s, StoreUnder(a), made.token[1], n, t))

\* TokenRefresher.ensure_valid_token(session_id) when the upstream, if
\* asked, answers resp.
EnsureValidToken(s, sid, resp, n, t) ==
    LET token == GetTokenRet(s, sid)
        s1 == GetTokenSessions(s, sid, t)
        ex == ExchangeToken(s1, Args("refresh_token", sid, None, None, token[1].refresh_token),
                            resp, n, t)
    IN  IF token = None
        THEN Result(None, None, << >>, None, s1)
        ELSE IF ~IsExpired(token[1], oauth_refresh_buffer_seconds, t)
        THEN Result(token, None, << >>, None, s1)
        ELSE IF ~Falsy(token[1].refresh_token)
        THEN IF ex.raised = None
             THEN ex
             ELSE IF Catches(ex.raised[1])
             THEN Result(None, None, << >>, ex.sent, DeleteSessions(ex.sessions, sid))
             ELSE ex
        ELSE Result(None, None, << >>, None, DeleteSessions(s1, sid))

\* A header that leaves out the scheme.
HeaderWithoutScheme(tok) == [Authorization |-> tok.access_token]

\* {"Authorization": f"Bearer {token.access_token}"}
AuthorizationHeader(tok) == [Authorization |-> BearerPrefix \o tok.access_token]

\* OAuth21Auth.get_auth_header(session_id), session_id an Optional[str],
\* when the upstream, if asked, answers resp.
GetAuthHeader(s, session_id, resp, n, t) ==
    LET r == EnsureValidToken(s, session_id[1], resp, n, t)
    IN  IF session_id = None
        THEN Result(None, Some("ValueError"),
                    <<"session_id is required for OAuth21Auth">>, None, s)
        ELSE IF r.raised # None \/ r.ret = None
        THEN r
        ELSE Result(Some(AuthorizationHeader(r.ret[1])), None, << >>, r.sent, r.sessions)

\* The form data clients post to the token endpoint.
FormData ==
    {ExchangeData(Args("authorization_code", "s1", Some(<<"c">>), Some(<<"u">>), None)),
     ExchangeData(Args("refresh_token", "s1", None, None, Some(<<"r">>)))}

\* The (body, status) pair of proxy_token_request.
Pair(body, status_code) == Some([body |-> body, status |-> status_code])

\* str(e) of the 502 bodies
Str(text) == text

\* TokenProxy.proxy_token_request(form_data, session_id) when the upstream
\* answers resp.
ProxyTokenRequest(s, form, sid, resp, n, t) ==
    LET made == CreateToken(resp.body, t)
    IN  IF resp.error # None
        THEN Result(Pair(Json(None, None, None, Some("server_error"),
                              Some(Str(resp.error[1]))), 502),
                    None, << >>, Some(form), s)
        ELSE IF ~resp.parses
        THEN Result(Pair(Json(None, None, None, Some("server_error"),
                              Some("Invalid response from auth server")), 502),
                    None, << >>, Some(form), s)
        ELSE IF resp.status # 200 \/ resp.body.access_token = None
        THEN Result(Pair(resp.body, resp.status), None, << >>, Some(form), s)
        ELSE IF made.raised # None
        THEN Result(None, made.raised, << >>, Some(form), s)
        ELSE IF SetTokenRaises(s, sid, n)
        THEN Result(None, Some("ValueError"), << >>, Some(form), s)
        ELSE Result(Pair(resp.body, resp.status), None, << >>, Some(form),
                    SetTokenSessions(s, sid, made.token[1], n, t))

\* The proxy, the refresher and an empty store have just been constructed.
ProxyInit ==
    /\ sessions = << >>
    /\ max_sessions = DEFAULT_MAX_SESSIONS
    /\ now = 0
    /\ lastResult = None
    /\ lastOp = None
    /\ lastUse = << >>
    /\ ctx = << >> /\ status = << >> /\ parent = << >> /\ lastSet = << >>
    /\ touched = << >> /\ spawnVal = << >> /\ lastRead = None
    /\ mcp_transport = "sse" /\ req = << >> /\ lastCall = None
    /\ cc_token = None /\ refresh_lock = None /\ pc = << >> /\ header = << >>
    /\ requests = << >> /\ config = << >>
    /\ conn = << >> /\ store_lock = << >> /\ invalidated = {}

\* What lastResult keeps of a call.
Called(op, sid, resp, r) ==
    Some([op |-> op, session_id |-> sid,
          resp |-> IF r.sent = None THEN None ELSE Some(resp),
          ret |-> r.ret, raised |-> r.raised])

\* A caller invokes exchange_token.
ExchangeTokenCall(a, resp) ==
    LET r == ExchangeToken(sessions, a, resp, max_sessions, now)
    IN  /\ sessions' = r.sessions
        /\ lastResult' = Called(a.grant_type, a.session_id, resp, r)

\* A caller invokes ensure_valid_token.
EnsureValidTokenCall(sid, resp) ==
    LET r == EnsureValidToken(sessions, sid, resp, max_sessions, now)
    IN  /\ sessions' = r.sessions
        /\ lastResult' = Called("ensure_valid_token", sid, resp, r)

\* A caller invokes the session-aware provider's get_auth_header.
GetAuthHeaderCall(session_id, resp) ==
    LET r == GetAuthHeader(sessions, session_id, resp, max_sessions, now)
    IN  /\ sessions' = r.sessions
        /\ lastResult' = Called("get_auth_header", session_id, resp, r)

\* A caller hands a client's form data to proxy_token_request.
ProxyTokenRequestCall(form, sid, resp) ==
    LET r == ProxyTokenRequest(sessions, form, sid, resp, max_sessions, now)
    IN  /\ sessions' = r.sessions
        /\ lastResult' = Called("proxy_token_request", sid, resp, r)

\* Time passes between two calls, one buffer length at a time.
ProxyTick ==
    /\ now < MaxTime * oauth_refresh_buffer_seconds
    /\ now' = now + oauth_refresh_buffer_seconds
    /\ lastResult' = None
    /\ UNCHANGED sessions

ProxyFrame ==
    UNCHANGED <<ctxVars, trVars, max_sessions, lastOp, lastUse, ccVars, rtVars, cnVars>>

ProxyNext ==
    \/ \E a \in ExchangeArgs : \E resp \in Answers(a) :
          ExchangeTokenCall(a, resp) /\ now' = now /\ ProxyFrame
    \/ \E sid \in PxSessionIds, resp \in Upstream :
          EnsureValidTokenCall(sid, resp) /\ now' = now /\ ProxyFrame
    \/ \E session_id \in {None} \cup {Some(sid) : sid \in PxSessionIds}, resp \in Upstream :
          GetAuthHeaderCall(session_id, resp) /\ now' = now /\ ProxyFrame
    \/ \E form \in FormData, sid \in PxSessionIds, resp \in Upstream :
          ProxyTokenRequestCall(form, sid, resp) /\ now' = now /\ ProxyFrame
    \/ ProxyTick /\ ProxyFrame

SpecProxy == ProxyInit /\ [][ProxyNext]_vars

----------------------------------------------------------------------------
(* auth.py: ClientCredentialsAuth.  Tasks of one event loop call           *)
(* get_auth_header; a task runs without interruption between two awaits,   *)
(* and the awaits are the acquisition of _refresh_lock and the POST to the *)
(* upstream token endpoint.  The upstream is the environment: it answers   *)
(* each request with a token of its choosing or with a failure.            *)

\* What the upstream can answer to a client-credentials request: a token
\* response, or a failure (transport error, error status, or a body that
\* Token(**token_data) rejects).
TokenAnswers ==
    {[ok |-> TRUE, access_token |-> at, expires_in |-> ei] :
        at \in Tokens, ei \in 1..(MaxTime + 1)}
        \cup {[ok |-> FALSE, access_token |-> << >>, expires_in |-> 0]}

\* Token(**token_data, created_at=utc_now())
Token(ans, t) ==
    [access_token |-> ans.access_token, expires_in |-> ans.expires_in, created_at |-> t]

\* A lock that never makes anyone wait.
AlwaysFree(lock) == TRUE

\* asyncio.Lock: acquire() returns at once when the lock is not held.
CanAcquire(lock) == lock = None

\* ClientCredentialsAuth._is_token_expired, the clock reading t.
IsTokenExpired(tok, t) ==
    \/ tok = None
    \/ t >= tok[1].created_at + tok[1].expires_in

\* __init__ leaves token None; a provider that has been running for a while
\* holds a token obtained earlier, here one that has expired since.
CcInit ==
    /\ cc_token \in {None, Some([access_token |-> TokA, expires_in |-> 1, created_at |-> -1])}
    /\ refresh_lock = None
    /\ pc = [k \in Tasks |-> "idle"]
    /\ header = [k \in Tasks |-> None]
    /\ requests = [issued |-> 0, failed |-> 0, stored |-> 0]
    /\ now = 0
    /\ sessions = << >> /\ max_sessions = 0 /\ lastOp = None /\ lastUse = << >>
    /\ ctx = << >> /\ status = << >> /\ parent = << >> /\ lastSet = << >>
    /\ touched = << >> /\ spawnVal = << >> /\ lastRead = None
    /\ mcp_transport = "stdio" /\ req = << >> /\ lastCall = None
    /\ lastResult = None
    /\ config = << >>
    /\ conn = << >> /\ store_lock = << >> /\ invalidated = {}

\* Task k calls get_auth_header and reaches `async with self._refresh_lock`.
CcCall(k) ==
    /\ pc[k] = "idle"
    /\ pc' = [pc EXCEPT ![k] = "wait"]
    /\ UNCHANGED <<cc_token, refresh_lock, header, requests, now>>

\* Task k acquires the lock.
CcAcquire(k) ==
    /\ pc[k] = "wait"
    /\ CanAcquire(refresh_lock)
    /\ refresh_lock' = Some(k)
    /\ pc' = [pc EXCEPT ![k] = "locked"]
    /\ UNCHANGED <<cc_token, header, requests, now>>

\* Holding the lock, task k tests `not self.token or self._is_token_expired()`:
\* it either sends the POST of get_auth_token and waits for the answer, or
\* returns the header of the held token and leaves the `async with`.
CcCheck(k) ==
    /\ pc[k] = "locked"
    /\ IF cc_token = None \/ IsTokenExpired(cc_token, now)
       THEN /\ pc' = [pc EXCEPT ![k] = "post"]
            /\ requests' = [requests EXCEPT !.issued = @ + 1]
            /\ UNCHANGED <<cc_token, refresh_lock, header>>
       ELSE /\ pc' = [pc EXCEPT ![k] = "done"]
            /\ header' = [header EXCEPT ![k] = Some(AuthorizationHeader(cc_token[1]))]
            /\ refresh_lock' = None
            /\ UNCHANGED <<cc_token, requests>>
    /\ UNCHANGED now

\* The upstream answers task k's POST: get_auth_token stores the new token
\* and get_auth_header returns its header, or the failure propagates to the
\* caller; either way the `async with` releases the lock.
CcRespond(k, ans) ==
    /\ pc[k] = "post"
    /\ IF ans.ok
       THEN /\ cc_token' = Some(Token(ans, now))
            /\ header' = [header EXCEPT ![k] = Some(AuthorizationHeader(Token(ans, now)))]
            /\ pc' = [pc EXCEPT ![k] = "done"]
            /\ requests' = [requests EXCEPT !.stored = @ + 1]
       ELSE /\ pc' = [pc EXCEPT ![k] = "raised"]
            /\ requests' = [requests EXCEPT !.failed = @ + 1]
            /\ UNCHANGED <<cc_token, header>>
    /\ refresh_lock' = None
    /\ UNCHANGED now

\* Time passes.
CcTick ==
    /\ now < MaxTime
    /\ now' = now + 1
    /\ UNCHANGED ccVars

CcFrame ==
    UNCHANGED <<ctxVars, trVars, pxVars, rtVars, cnVars, sessions, max_sessions, lastOp, lastUse>>

CcNext ==
    \/ \E k \in Tasks : CcCall(k) /\ CcFrame
    \/ \E k \in Tasks : CcAcquire(k) /\ CcFrame
    \/ \E k \in Tasks : CcCheck(k) /\ CcFrame
    \/ \E k \in Tasks, ans \in TokenAnswers : CcRespond(k, ans) /\ CcFrame
    \/ CcTick /\ CcFrame

SpecCC == CcInit /\ [][CcNext]_vars

----------------------------------------------------------------------------
(* oauth/dcr.py, oauth/metadata.py and oauth/routes.py: the routes that    *)
(* keep no state of their own.  Each answers from the request, from the    *)
(* settings in config and, for the metadata route, from what the upstream  *)
(* authorization server answers.  A JSON object is a function from its     *)
(* keys to their values; the dict a request body parses to is one too.     *)

\* The settings the routes read.  The validator of Config insists on the
\* DCR credentials for the sse transport only, so a running server can have
\* them absent or empty.
Configs ==
    [oauth_dcr_client_id : OptStr(<<"i">>),
     oauth_dcr_client_secret : OptStr(<<"k">>),
     mcp_server_url : {"https://mcp.example", "https://mcp.example/base"},
     oauth_server_url : {"http://auth.internal"}]

\* The JSON object with the keys of d that are in keys.
Restrict(d, keys) == [f \in keys |-> d[f]]

\* A registration request that supplies every key a client may send here:
\* echoable ones with values that differ from the defaults, and keys the
\* server answers itself.
FullRegistration ==
    [redirect_uris |-> <<"https://app.example/cb">>,
     client_name |-> "app",
     grant_types |-> <<"authorization_code", "refresh_token">>,
     response_types |-> <<"token">>,
     token_endpoint_auth_method |-> "none",
     client_id |-> <<"x">>,
     client_secret_expires_at |-> 99]

\* The client metadata objects of registration requests.
RegistrationRequests ==
    {Restrict(FullRegistration, keys) : keys \in SUBSET DOMAIN FullRegistration}

\* defaults
Defaults ==
    [grant_types |-> <<"authorization_code">>,
     response_types |-> <<"code">>,
     token_endpoint_auth_method |-> "client_secret_post"]

\* An echo list that also holds the keys of the fixed part and a key no
\* list names.
EchoedFieldsAndFixed ==
    <<"redirect_uris", "client_name", "client_uri", "logo_uri", "scope",
      "contacts", "tos_uri", "policy_uri", "jwks_uri", "jwks", "software_id",
      "software_version", "grant_types", "response_types",
      "token_endpoint_auth_method", "client_id", "client_secret",
      "client_id_issued_at", "client_secret_expires_at", "software_statement">>

\* echoed_fields
EchoedFields ==
    <<"redirect_uris", "client_name", "client_uri", "logo_uri", "scope",
      "contacts", "tos_uri", "policy_uri", "jwks_uri", "jwks", "software_id",
      "software_version", "grant_types", "response_types",
      "token_endpoint_auth_method">>

\* The fixed part of the registration response.
Credentials(cfg, t) ==
    [client_id |-> cfg.oauth_dcr_client_id[1],
     client_secret |-> cfg.oauth_dcr_client_secret[1],
     client_id_issued_at |-> t,
     client_secret_expires_at |-> 0]

\* A loop that echoes what the request supplies and knows no defaults.
EchoesSuppliedOnly(request_data, field) == field \in DOMAIN request_data

\* The loop over echoed_fields assigns response[field] for these fields.
Echoes(request_data, field) ==
    field \in DOMAIN request_data \/ field \in DOMAIN Defaults

\* A check that notices an absent credential, not an empty one.
CredentialsAbsent(cfg) ==
    cfg.oauth_dcr_client_id = None \/ cfg.oauth_dcr_client_secret = None

\* not config.oauth_dcr_client_id or not config.oauth_dcr_client_secret
CredentialsMissing(cfg) ==
    Falsy(cfg.oauth_dcr_client_id) \/ Falsy(cfg.oauth_dcr_client_secret)

\* handle_client_registration(request_data) under the settings cfg at time
\* t: the fixed part, then the loop over echoed_fields assigning into it.
HandleClientRegistration(cfg, request_data, t) ==
    LET fixed == Credentials(cfg, t)
        echoed == {EchoedFields[i] : i \in {j \in 1..Len(EchoedFields) :
                                               Echoes(request_data, EchoedFields[j])}}
    IN  IF CredentialsMissing(cfg)
        THEN [raised |-> Some("DCRError"), ret |-> None,
              text |-> "DCR credentials not configured. Set OAUTH_DCR_CLIENT_ID and OAUTH_DCR_CLIENT_SECRET environment variables."]
        ELSE [raised |-> None, text |-> "",
              ret |-> Some([f \in DOMAIN fixed \cup echoed |->
                              IF f \notin echoed THEN fixed[f]
                              ELSE IF f \in DOMAIN request_data THEN request_data[f]
                              ELSE Defaults[f]])]

\* The bodies POST /register receives: a client metadata object, or
\* something request.json() raises on.
RegisterBodies == {Some(d) : d \in RegistrationRequests} \cup {None}

\* register_handler: the JSONResponse for the request body raw.
RegisterHandler(cfg, raw, t) ==
    LET body == IF raw = None THEN << >> ELSE raw[1]
        r == HandleClientRegistration(cfg, body, t)
    IN  IF r.raised = None
        THEN [status |-> 201, body |-> r.ret[1]]
        ELSE [status |-> 400,
              body |-> [error |-> "invalid_request", error_description |-> Str(r.text)]]

\* An authorization-server metadata document with every key used here.
FullMetadata(methods) ==
    [issuer |-> "http://auth.internal",
     authorization_endpoint |-> "http://auth.internal/oauth2.1/authorize",
     token_endpoint |-> "http://auth.internal/oauth2.1/token",
     registration_endpoint |-> "http://auth.internal/oauth2.1/register",
     jwks_uri |-> "http://auth.internal/jwks",
     token_endpoint_auth_methods_supported |-> methods]

\* Values of token_endpoint_auth_methods_supported.
AuthMethods ==
    {<< >>, <<"none">>, <<"client_secret_post", "none">>,
     <<"none", "client_secret_basic", "none">>,
     <<"client_secret_post", "client_secret_basic">>}

\* The documents the upstream serves: issuer and authorization_endpoint
\* always, the other keys or not.
UpstreamDocuments ==
    {Restrict(FullMetadata(m), {"issuer", "authorization_endpoint"} \cup keys) :
        m \in AuthMethods,
        keys \in SUBSET {"token_endpoint", "registration_endpoint", "jwks_uri",
                         "token_endpoint_auth_methods_supported"}}

\* What the GET of the upstream document can come to: the document; an
\* error status, whatever its body; a body that is not JSON; no answer.
MetadataAnswers ==
    {Response(200, TRUE, TRUE, d, "raw") : d \in UpstreamDocuments}
        \cup {Response(500, TRUE, TRUE, FullMetadata(<<"none">>), "Server error '500 Internal Server Error'"),
              Response(404, FALSE, FALSE, << >>, "Client error '404 Not Found'"),
              Response(200, FALSE, FALSE, << >>, "Expecting value: line 1 column 1 (char 0)")}
        \cup UpstreamFailures

\* A response check that lets every status through.
AnyStatusPasses(resp) == FALSE

\* response.raise_for_status() raises
RaisesForStatus(resp) == ~(200 <= resp.status /\ resp.status < 300)

\* A filter that keeps every method.
KeepAll(methods) == methods

\* [m for m in methods if m != "none"]
WithoutNone(methods) == SelectSeq(methods, LAMBDA m : m # "none")

\* The document proxy_authorization_server_metadata returns for the
\* upstream document doc.
Rewritten(cfg, doc) ==
    [f \in DOMAIN doc \cup {"registration_endpoint", "token_endpoint", "authorization_endpoint"} |->
        IF f = "registration_endpoint" THEN cfg.mcp_server_url \o "/register"
        ELSE IF f = "token_endpoint" THEN cfg.mcp_server_url \o "/oauth/token"
        ELSE IF f = "authorization_endpoint" THEN cfg.mcp_server_url \o "/authorize"
        ELSE IF f = "token_endpoint_auth_methods_supported" THEN WithoutNone(doc[f])
        ELSE doc[f]]

\* proxy_authorization_server_metadata() when the upstream answers resp: the
\* rewritten document, or the exception raised and its text.
ProxyAuthorizationServerMetadata(cfg, resp) ==
    IF resp.error # None
    THEN [raised |-> Some("RequestError"), text |-> resp.error[1], metadata |-> None]
    ELSE IF RaisesForStatus(resp)
    THEN [raised |-> Some("HTTPStatusError"), text |-> resp.text, metadata |-> None]
    ELSE IF ~resp.parses
    THEN [raised |-> Some("JSONDecodeError"), text |-> resp.text, metadata |-> None]
    ELSE [raised |-> None, text |-> "", metadata |-> Some(Rewritten(cfg, resp.body))]

\* What proxy_authorization_server_metadata() can come to.
MetadataOutcomes ==
    {ProxyAuthorizationServerMetadata(cfg, resp) : cfg \in Configs, resp \in MetadataAnswers}

\* authorization_server_metadata_handler: the JSONResponse.
MetadataHandler(o) ==
    IF o.raised = None
    THEN [status |-> 200, body |-> o.metadata[1]]
    ELSE [status |-> 502,
          body |-> [error |-> "upstream_error", error_description |-> Str(o.text)]]

\* The servers start with the settings loaded once.
RoutesInit ==
    /\ config \in Configs
    /\ lastResult = None
    /\ now = 0
    /\ sessions = << >> /\ max_sessions = 0 /\ lastOp = None /\ lastUse = << >>
    /\ ctx = << >> /\ status = << >> /\ parent = << >> /\ lastSet = << >>
    /\ touched = << >> /\ spawnVal = << >> /\ lastRead = None
    /\ mcp_transport = "streamable-http" /\ req = << >> /\ lastCall = None
    /\ cc_token = None /\ refresh_lock = None /\ pc = << >> /\ header = << >>
    /\ requests = << >>
    /\ conn = << >> /\ store_lock = << >> /\ invalidated = {}

\* What lastResult keeps of a request to a route.
Served(op, request, response) ==
    Some([op |-> op, request |-> request, response |-> response])

\* A client posts raw to /register.
RegisterCall(raw) ==
    /\ lastResult' = Served("register", raw, RegisterHandler(config, raw, now))
    /\ UNCHANGED now

\* A client fetches /.well-known/oauth-authorization-server and the
\* upstream answers resp.
MetadataCall(resp) ==
    /\ lastResult' = Served("metadata", resp,
                            MetadataHandler(ProxyAuthorizationServerMetadata(config, resp)))
    /\ UNCHANGED now

\* The query strings of GET /authorize, as their (name, value) pairs in
\* the order of the URL; a name may occur more than once.
QueryPairs == {<<k, v>> : k \in {"client_id", "resource"}, v \in {"a", "b"}}

Queries == UNION {[1..n -> QueryPairs] : n \in 0..MaxParams}

\* dict(request.query_params): QueryParams is a multi-dict whose keys() are
\* the distinct names in order of first occurrence and whose [] gives the
\* last value of a name.
RECURSIVE Dict(_)
Dict(q) ==
    IF q = << >> THEN << >>
    ELSE LET d == Dict(SubSeq(q, 1, Len(q) - 1))
             p == q[Len(q)]
         IN  IF \E i \in 1..Len(d) : d[i][1] = p[1]
             THEN [i \in 1..Len(d) |-> IF d[i][1] = p[1] THEN p ELSE d[i]]
             ELSE Append(d, p)

\* authorize_handler: the RedirectResponse.  The Location is the upstream
\* authorize URL and, after "?", urlencode of the dict: its items as
\* name=value in the dict's order.
AuthorizeHandler(cfg, q) ==
    [status |-> 302,
     location |-> [url |-> cfg.oauth_server_url \o "/oauth2.1/authorize",
                   query |-> Dict(q)]]

\* A client's browser requests /authorize with the query q.
AuthorizeCall(q) ==
    /\ lastResult' = Served("authorize", q, AuthorizeHandler(config, q))
    /\ UNCHANGED now

\* Time passes between two requests.
RoutesTick ==
    /\ now < MaxTime
    /\ now' = now + 1
    /\ lastResult' = None

RoutesFrame ==
    UNCHANGED <<ctxVars, trVars, ccVars, rtVars, cnVars, sessions, max_sessions, lastOp, lastUse>>

RoutesNext ==
    \/ \E raw \in RegisterBodies : RegisterCall(raw) /\ RoutesFrame
    \/ \E resp \in MetadataAnswers : MetadataCall(resp) /\ RoutesFrame
    \/ \E q \in Queries : AuthorizeCall(q) /\ RoutesFrame
    \/ RoutesTick /\ RoutesFrame

SpecRoutes == RoutesInit /\ [][RoutesNext]_vars

----------------------------------------------------------------------------
(* oauth/session.py: the session id of a request.  A str is the sequence   *)
(* of its characters.                                                      *)

\* [a-f0-9] under re.IGNORECASE
HexDigits ==
    {"0", "1", "2", "3", "4", "5", "6", "7", "8", "9",
     "a", "b", "c", "d", "e", "f", "A", "B", "C", "D", "E", "F"}

\* The lengths of the five runs of hex digits in SESSION_ID_PATTERN.
PatternGroups == <<8, 4, 4, 4, 12>>

\* "$" without re.MULTILINE: at the end of the string, and also just before
\* a newline that is the last character of the string.
AtEnd(s, pos) ==
    \/ pos = Len(s) + 1
    \/ pos = Len(s) /\ s[pos] = "\n"

\* SESSION_ID_PATTERN from its g-th run of hex digits on, tried at pos: the
\* run, then for all runs but the last an optional "-", then the rest.
RECURSIVE MatchFrom(_, _, _)
MatchFrom(s, pos, g) ==
    IF g > Len(PatternGroups)
    THEN AtEnd(s, pos)
    ELSE LET next == pos + PatternGroups[g]
         IN  /\ next - 1 <= Len(s)
             /\ \A i \in pos..(next - 1) : s[i] \in HexDigits
             /\ \/ /\ g < Len(PatternGroups)
                   /\ next <= Len(s)
                   /\ s[next] = "-"
                   /\ MatchFrom(s, next + 1, g + 1)
                \/ MatchFrom(s, next, g + 1)

\* is_valid_session_id(session_id): bool(SESSION_ID_PATTERN.match(session_id))
IsValidSessionId(s) == MatchFrom(s, 1, 1)

\* n times the character c.
Run(c, n) == [i \in 1..n |-> c]

\* The five runs of a UUID written with the digit c, joined by hy.
Uuid(c, hy) ==
    Run(c, 8) \o hy \o Run(c, 4) \o hy \o Run(c, 4) \o hy \o Run(c, 4) \o hy \o Run(c, 12)

\* str(uuid.uuid4()): hyphenated, lower case.
FreshUuids == {Uuid("0", <<"-">>), Uuid("7", <<"-">>), Uuid("e", <<"-">>)}

\* request.headers.get("X-Session-ID"): absent, empty, or a header value; a
\* header value holds no line break.
HeaderValues ==
    {None, Some(<< >>), Some(Uuid("a", <<"-">>)), Some(Uuid("B", << >>)),
     Some(<<"i", "n", "v", "a", "l", "i", "d">>), Some(Run("a", 31))}

\* request.query_params.get("session_id"): absent, empty, or any string,
\* percent-decoded (so %0A is a line break).
ParamValues ==
    {None, Some(<< >>), Some(Uuid("c", <<"-">>)), Some(Uuid("D", << >>)),
     Some(Uuid("c", << >>) \o <<"\n">>), Some(Uuid("c", << >>) \o <<" ">>),
     Some(<<".", ".", "/", "x">>)}

\* session_id and is_valid_session_id(session_id)
Trusted(v) == v # None /\ v # Some(<< >>) /\ IsValidSessionId(v[1])

\* get_session_id_from_request(request), uuid4 drawing fresh.
GetSessionIdFromRequest(h, q, fresh) ==
    IF Trusted(h) THEN h[1]
    ELSE IF Trusted(q) THEN q[1]
    ELSE fresh

\* No request has been looked at yet.
SessionIdInit ==
    /\ lastResult = None
    /\ now = 0
    /\ sessions = << >> /\ max_sessions = 0 /\ lastOp = None /\ lastUse = << >>
    /\ ctx = << >> /\ status = << >> /\ parent = << >> /\ lastSet = << >>
    /\ touched = << >> /\ spawnVal = << >> /\ lastRead = None
    /\ mcp_transport = "sse" /\ req = << >> /\ lastCall = None
    /\ cc_token = None /\ refresh_lock = None /\ pc = << >> /\ header = << >>
    /\ requests = << >> /\ config = << >>
    /\ conn = << >> /\ store_lock = << >> /\ invalidated = {}

\* A request with X-Session-ID h and session_id parameter q is looked at.
GetSessionIdCall(h, q, fresh) ==
    /\ lastResult' = Some([op |-> "get_session_id_from_request",
                           header |-> h, param |-> q, fresh |-> fresh,
                           ret |-> GetSessionIdFromRequest(h, q, fresh)])
    /\ UNCHANGED <<ctxVars, storeVars, trVars, ccVars, rtVars, cnVars>>

SessionIdNext ==
    \E h \in HeaderValues, q \in ParamValues, fresh \in FreshUuids :
        GetSessionIdCall(h, q, fresh)

SpecSessionId == SessionIdInit /\ [][SessionIdNext]_vars

----------------------------------------------------------------------------
(* oauth/refresh.py, oauth/token.py, oauth/oauth21_auth.py and             *)
(* oauth/session.py: tasks of one event loop, one per connection, running  *)
(* calls on the same store.  A task runs without interruption from one     *)
(* await that suspends it to the next: the acquisition of the store's      *)
(* lock and the POST to the upstream.  Every `async with self._lock` body  *)
(* is a single step.                                                       *)

ConnSessionIds == {"s1"}

\* The tasks, one per connection.
ConnTasks == 1..MaxConn

\* The calls a connection makes.
ConnOps == {"ensure_valid_token", "invalidate_session", "proxy_token_request"}

\* The upstream's answers that matter here: a new token, a rejection, no
\* answer in time.
ConnAnswers ==
    {Response(200, TRUE, TRUE, Json(Some(TokB), Some(120), Some(<<"r">>), None, None), "raw"),
     Response(400, TRUE, TRUE, Json(None, None, None, Some("invalid_grant"), Some("Refresh token expired")), "raw"),
     RequestError("timed out")}

\* What the part of exchange_token before set_token comes to when the
\* upstream answers resp: the new token, or the exception raised.
Exchanged(resp, t) ==
    IF resp.error # None THEN [raised |-> Some("TokenProxyError"), token |-> None]
    ELSE IF resp.status # 200
    THEN IF resp.json_ct /\ ~resp.parses
         THEN [raised |-> Some("JSONDecodeError"), token |-> None]
         ELSE [raised |-> Some("TokenProxyError"), token |-> None]
    ELSE IF ~resp.parses THEN [raised |-> Some("JSONDecodeError"), token |-> None]
    ELSE CreateToken(resp.body, t)

\* A task between two calls.
Idle ==
    [op |-> "none", sid |-> "", pc |-> "idle", token |-> None, ret |-> None,
     raised |-> None, stale |-> FALSE]

\* A lock that stays with the task that took it.
NeverReleased(q) == q

\* Leaving `async with self._lock`: the next task that called acquire() gets
\* the lock.
Released(q) == Tail(q)

\* The session a store of an earlier exchange left behind: a token with
\* refresh_token, created at time 0 and valid for two buffer lengths.
StoredEarlier(sid) ==
    SessionData(sid,
                Stamp(CreateToken(Json(Some(TokA), Some(120), Some(<<"r">>), None, None), 0).token[1], sid),
                0)

\* One buffer length after the stored token was issued: it is due for a
\* refresh; or the store is empty.
ConnInit ==
    /\ sessions \in {<< >>} \cup {<<StoredEarlier(sid)>> : sid \in ConnSessionIds}
    /\ max_sessions = DEFAULT_MAX_SESSIONS
    /\ now = oauth_refresh_buffer_seconds
    /\ lastOp = None
    /\ conn = [k \in ConnTasks |-> Idle]
    /\ store_lock = << >>
    /\ invalidated = {}
    /\ lastUse = << >>
    /\ ctx = << >> /\ status = << >> /\ parent = << >> /\ lastSet = << >>
    /\ touched = << >> /\ spawnVal = << >> /\ lastRead = None
    /\ mcp_transport = "sse" /\ req = << >> /\ lastCall = None
    /\ lastResult = None
    /\ cc_token = None /\ refresh_lock = None /\ pc = << >> /\ header = << >>
    /\ requests = << >> /\ config = << >>

\* What the model records of the store operation that produced the current
\* state: the operation, the call it belongs to, the session id and the
\* token stored for it just before.
StoreOp(op, k, before) ==
    Some([op |-> op, call |-> conn[k].op, sid |-> conn[k].sid, before |-> before])

\* Task k starts a call for session sid: ensure_valid_token and
\* invalidate_session reach their first store operation, proxy_token_request
\* sends its POST.
Start(k, op, sid) ==
    /\ conn[k].pc = "idle"
    /\ conn' = [conn EXCEPT ![k] =
                  [Idle EXCEPT !.op = op, !.sid = sid,
                               !.pc = IF op = "ensure_valid_token" THEN "get"
                                      ELSE IF op = "invalidate_session" THEN "delete"
                                      ELSE "net"]]
    /\ store_lock' = IF op \in {"ensure_valid_token", "invalidate_session"}
                     THEN Append(store_lock, k) ELSE store_lock
    /\ lastOp' = None
    /\ UNCHANGED <<sessions, invalidated>>

\* ensure_valid_token, lines 39-70 up to the next await: get_token under
\* the lock, then the tests on the token read.
StoreGet(k) ==
    LET token == GetTokenRet(sessions, conn[k].sid)
        next == IF token = None THEN "done"
                ELSE IF ~IsExpired(token[1], oauth_refresh_buffer_seconds, now) THEN "done"
                ELSE IF ~Falsy(token[1].refresh_token) THEN "net"
                ELSE "delete"
    IN  /\ conn[k].pc = "get"
        /\ store_lock # << >> /\ Head(store_lock) = k
        /\ sessions' = GetTokenSessions(sessions, conn[k].sid, now)
        /\ conn' = [conn EXCEPT ![k].pc = next,
                                ![k].token = token,
                                ![k].ret = IF next = "done" THEN token ELSE None]
        /\ store_lock' = IF next = "delete"
                         THEN Append(Released(store_lock), k)
                         ELSE Released(store_lock)
        /\ lastOp' = StoreOp("get_token", k, token)
        /\ UNCHANGED invalidated

\* The upstream answers the POST of task k (the refresh exchange_token sent
\* for ensure_valid_token, or that of proxy_token_request) with resp:
\* _create_token and the call of set_token, or the failure, after which
\* ensure_valid_token deletes the session and proxy_token_request returns
\* an error pair.
Receive(k, resp) ==
    LET made == Exchanged(resp, now)
        caught == conn[k].op = "ensure_valid_token" /\ Catches(made.raised[1])
    IN  /\ conn[k].pc = "net"
        /\ IF made.raised = None
           THEN /\ conn' = [conn EXCEPT ![k].pc = "set", ![k].token = made.token]
                /\ store_lock' = Append(store_lock, k)
           ELSE IF caught
           THEN /\ conn' = [conn EXCEPT ![k].pc = "delete"]
                /\ store_lock' = Append(store_lock, k)
           ELSE /\ conn' = [conn EXCEPT ![k].pc = "done",
                                        ![k].raised = IF conn[k].op = "ensure_valid_token"
                                                      THEN made.raised ELSE None]
                /\ UNCHANGED store_lock
        /\ lastOp' = None
        /\ UNCHANGED <<sessions, invalidated>>

\* set_token under the lock, for the token task k obtained.
StoreSet(k) ==
    /\ conn[k].pc = "set"
    /\ store_lock # << >> /\ Head(store_lock) = k
    /\ IF SetTokenRaises(sessions, conn[k].sid, max_sessions)
       THEN /\ IF conn[k].op = "ensure_valid_token"
               THEN /\ conn' = [conn EXCEPT ![k].pc = "delete"]
                    /\ store_lock' = Append(Released(store_lock), k)
               ELSE /\ conn' = [conn EXCEPT ![k].pc = "done", ![k].raised = Some("ValueError")]
                    /\ store_lock' = Released(store_lock)
            /\ UNCHANGED <<sessions, invalidated>>
       ELSE /\ sessions' = SetTokenSessions(sessions, conn[k].sid, conn[k].token[1],
                                            max_sessions, now)
            /\ conn' = [conn EXCEPT ![k].pc = "done",
                                    ![k].ret = Some(Stamp(conn[k].token[1], conn[k].sid))]
            /\ store_lock' = Released(store_lock)
            /\ invalidated' = IF conn[k].stale THEN invalidated
                              ELSE invalidated \ {conn[k].sid}
    /\ lastOp' = StoreOp("set_token", k, GetTokenRet(sessions, conn[k].sid))

\* delete_session under the lock: the whole of invalidate_session, or the
\* end of an ensure_valid_token whose token cannot be refreshed.  An
\* invalidation marks the exchanges in flight for the session as started
\* before it.
StoreDelete(k) ==
    LET inv == conn[k].op = "invalidate_session"
    IN  /\ conn[k].pc = "delete"
        /\ store_lock # << >> /\ Head(store_lock) = k
        /\ sessions' = DeleteSessions(sessions, conn[k].sid)
        /\ conn' = [j \in ConnTasks |->
                      IF j = k THEN [conn[k] EXCEPT !.pc = "done", !.ret = None]
                      ELSE IF inv /\ conn[j].sid = conn[k].sid /\ conn[j].pc \in {"net", "set"}
                      THEN [conn[j] EXCEPT !.stale = TRUE]
                      ELSE conn[j]]
        /\ store_lock' = Released(store_lock)
        /\ invalidated' = IF inv THEN invalidated \cup {conn[k].sid} ELSE invalidated
        /\ lastOp' = StoreOp("delete_session", k, GetTokenRet(sessions, conn[k].sid))

\* The call of task k has returned or raised; the connection is ready for
\* its next call.
Return(k) ==
    /\ conn[k].pc = "done"
    /\ conn' = [conn EXCEPT ![k] = Idle]
    /\ lastOp' = None
    /\ UNCHANGED <<sessions, store_lock, invalidated>>

ConnFrame ==
    UNCHANGED <<ctxVars, trVars, pxVars, ccVars, rtVars, max_sessions, now, lastUse>>

\* The store operation task k is waiting to do.
StoreStep(k) ==
    \/ StoreGet(k) /\ ConnFrame
    \/ StoreSet(k) /\ ConnFrame
    \/ StoreDelete(k) /\ ConnFrame

ConnNext ==
    \/ \E k \in ConnTasks, op \in ConnOps, sid \in ConnSessionIds : Start(k, op, sid) /\ ConnFrame
    \/ \E k \in ConnTasks, resp \in ConnAnswers : Receive(k, resp) /\ ConnFrame
    \/ \E k \in ConnTasks : StoreGet(k) /\ ConnFrame
    \/ \E k \in ConnTasks : StoreSet(k) /\ ConnFrame
    \/ \E k \in ConnTasks : StoreDelete(k) /\ ConnFrame
    \/ \E k \in ConnTasks : Return(k) /\ ConnFrame

SpecConn == ConnInit /\ [][ConnNext]_vars

\* The event loop runs every task that is ready: a task whose turn it is to
\* take the lock does its store operation.
SpecConnFair == SpecConn /\ \A k \in ConnTasks : WF_vars(StoreStep(k))

----------------------------------------------------------------------------
(* Claims about the context variable *)

\* What task t must read: its own last set/clear, else what it inherited.
Expected(t) == IF touched[t] THEN lastSet[t] ELSE spawnVal[t]

\* C1: a task that has called set_session_token / clear_session_token reads
\* back, under every interleaving with the other tasks, exactly the value of
\* its own most recent set (absent after its own clear), never a value
\* another task set or cleared.
C1_ContextIsolation ==
    lastRead # None /\ touched[lastRead[1].task]
        => lastRead[1].value = lastSet[lastRead[1].task]

\* Two running tasks hold distinct tokens, a third context has been cleared
\* by its own task, and one of the token holders has just read its own.
C1_Witness ==
    \E a, b, c \in Tasks :
        /\ a # b /\ b # c /\ a # c
        /\ status[a] = "run" /\ status[b] = "run" /\ status[c] = "run"
        /\ lastSet[a] = Some(TokA) /\ lastSet[b] = Some(TokB)
        /\ touched[c] /\ lastSet[c] = None
        /\ lastRead = Some([task |-> a, value |-> Some(TokA)])

\* C2: a spawned task that has not itself set or cleared reads the value its
\* parent had when it was spawned, and every task of a family (a task with a
\* parent or with children) reads only its own value, whatever the parent,
\* the child or a sibling set or cleared after the spawn.
C2_ChildInheritsAtSpawn ==
    lastRead # None =>
        LET t == lastRead[1].task IN
            /\ (t # 0 /\ ~touched[t]) => lastRead[1].value = spawnVal[t]
            /\ (t # 0 \/ \E c \in Tasks : status[c] = "run" /\ parent[c] = t)
                   => lastRead[1].value = Expected(t)

\* A child reads the token inherited at spawn after its parent moved on to
\* another token and while a sibling holds a cleared context.
C2_Witness ==
    \E c, d \in Tasks \ {0} :
        /\ c # d
        /\ status[c] = "run" /\ status[d] = "run"
        /\ parent[c] = parent[d]
        /\ ~touched[c] /\ spawnVal[c] = Some(TokA)
        /\ ctx[parent[c]] = Some(TokB)
        /\ touched[d] /\ spawnVal[d] = Some(TokA) /\ lastSet[d] = None
        /\ lastRead = Some([task |-> c, value |-> Some(TokA)])

----------------------------------------------------------------------------
(* Claims about the transport entry points *)

\* The request's handler bound the token at some point.
WasBound(r) == req[r].exit \in {"raised_before_try", "returned", "raised", "dropped"}

\* C3: for both entry points, once the token has been bound, every exit of
\* the handler (normal return, exception from the engine, connection drop,
\* exception between binding and delegation) leaves the handler's context
\* reading absent.
C3_ClearedOnEveryExit ==
    \A r \in Requests :
        (req[r].pc = "done" /\ WasBound(r)) => ContextVarGet(ctx, r) = None

\* C4: while the MCP engine handles an accepted request, the request's
\* context holds exactly the token of that request's Authorization header
\* ("Bearer " followed by the token is the header), and that is what a
\* get_session_token() of the engine returns.
C4_TokenBoundThroughoutEngine ==
    \A r \in Requests :
        req[r].pc = "engine" =>
            /\ ctx[r] # None
            /\ BearerPrefix \o ctx[r][1] = req[r].header
            /\ (lastRead # None /\ lastRead[1].task = r)
                  => /\ lastRead[1].value # None
                     /\ BearerPrefix \o lastRead[1].value[1] = req[r].header

\* The engines of two requests run at once with different tokens, and one
\* of them has just read its own.
C4_Witness ==
    \E r, q \in Requests :
        /\ r # q
        /\ req[r].pc = "engine" /\ req[q].pc = "engine"
        /\ req[r].header = BearerPrefix \o TokA
        /\ req[q].header = BearerPrefix \o TokB
        /\ lastRead = Some([task |-> r, value |-> Some(TokA)])

\* A header that carries no bearer token: absent, another scheme, or
\* "Bearer " followed by nothing.
NoBearerToken(h) == Len(h) <= 7 \/ SubSeq(h, 1, 7) # BearerPrefix

InSeq(x, seq) == \E i \in 1..Len(seq) : seq[i] = x

C6_SseOnlyStoredTokens ==
    mcp_transport = "sse" =>
        \A r \in Requests :
            /\ (req[r].pc \in {"bound", "engine"} \/ ctx[r] # None \/ WasBound(r))
                  => req[r].inStore /\ req[r].session_id # None
            /\ (req[r].pc = "done" /\ req[r].exit = "rejected" /\ req[r].token # None)
                  => /\ ~req[r].inStore
                     /\ req[r].resp # None
                     /\ req[r].resp[1].status = 401
                     /\ InSeq("error=invalid_token", req[r].resp[1].www)

\* One connection is served with a token whose session has since been
\* dropped, while another request with an unknown token has been rejected
\* with the invalid_token hint.
C6_Witness ==
    \E r, q \in Requests :
        /\ mcp_transport = "sse"
        /\ req[r].pc = "engine" /\ req[r].inStore
        /\ ~(\E i \in 1..Len(sessions) :
                sessions[i].token.access_token = req[r].token[1])
        /\ req[q].pc = "done" /\ req[q].exit = "rejected"
        /\ req[q].header = BearerPrefix \o TokB
        /\ req[q].resp = Some(UnauthorizedInvalidToken)

\* C7: every outbound advertising-API call issued while an accepted request
\* is handled carries "Authorization: Bearer <t>" with t that request's own
\* bearer token, that is, the request's own Authorization header.
C7_OutboundCarriesOwnToken ==
    lastCall # None =>
        lastCall[1].authorization = req[lastCall[1].req].header

----------------------------------------------------------------------------
(* Claims about the session store *)

\* The session that set_token(sid, .) would evict from the current store.
Evicted(sid, tok) ==
    Ids(sessions) \ Ids(SetTokenSessions(sessions, sid, tok, max_sessions, now))

C9_EvictsLeastRecentlyUsed ==
    /\ \A i \in 1..Len(sessions) :
          sessions[i].last_accessed = lastUse[sessions[i].sid]
    /\ \A sid \in SessionIds, tok \in CallerTokens :
          ~SetTokenRaises(sessions, sid, max_sessions) =>
              IF sid \in Ids(sessions)
              THEN Evicted(sid, tok) = {}
              ELSE \A e \in Evicted(sid, tok) :
                      \A j \in 1..Len(sessions) :
                          lastUse[e] <= sessions[j].last_accessed

\* A set_token has just evicted the second session of a full store: the
\* first inserted one had been used more recently and was kept.
C9_Witness ==
    /\ lastOp # None /\ lastOp[1].op = "set_token" /\ lastOp[1].pos = 2
    /\ Len(sessions) = 2
    /\ sessions[1].last_accessed > sessions[1].created_at

\* What get_token(sid) and find_session_by_token(T.access_token) return
\* right after set_token(sid, T) on the current store.
AfterSet(sid, tok) == SetTokenSessions(sessions, sid, tok, max_sessions, now)

\* C10 as stated: on every store state, set_token(id, T) then get_token(id)
\* returns T (as stamped in place with session_id = id), and
\* find_session_by_token(T.access_token) returns id.
C10_Original ==
    \A sid \in SessionIds, tok \in CallerTokens :
        ~SetTokenRaises(sessions, sid, max_sessions) =>
            /\ GetTokenRet(AfterSet(sid, tok), sid)
                  = Some([tok EXCEPT !.session_id = Some(sid)])
            /\ FindRet(GetTokenSessions(AfterSet(sid, tok), sid, now), tok.access_token)
                  = Some(sid)

\* C10 amended: get_token(id) returns T in all fields on every store state;
\* find_session_by_token(T.access_token) returns id when no other stored
\* session holds a token with the same access_token, and otherwise the
\* first session in insertion order that holds one.
C10_RoundTrip ==
    \A sid \in SessionIds, tok \in CallerTokens :
        ~SetTokenRaises(sessions, sid, max_sessions) =>
            LET s2 == GetTokenSessions(AfterSet(sid, tok), sid, now)
                same == {j \in 1..Len(s2) : s2[j].token.access_token = tok.access_token}
            IN  /\ GetTokenRet(AfterSet(sid, tok), sid)
                      = Some([tok EXCEPT !.session_id = Some(sid)])
                /\ (\A j \in same : s2[j].sid = sid)
                      => FindRet(s2, tok.access_token) = Some(sid)
                /\ \E j \in same :
                      /\ FindRet(s2, tok.access_token) = Some(s2[j].sid)
                      /\ \A k \in same : j <= k

\* set_token has just stored a token beside a session holding a different
\* access_token, so both lookups resolve to the new session.
C10_Witness ==
    /\ lastOp # None /\ lastOp[1].op = "set_token" /\ ~lastOp[1].raised
    /\ Len(sessions) = 2
    /\ sessions[1].token.access_token # sessions[2].token.access_token
    /\ sessions[2].created_at = now
    /\ GetTokenRet(sessions, sessions[2].sid) = Some(sessions[2].token)
    /\ FindRet(sessions, sessions[2].token.access_token) = Some(sessions[2].sid)

\* C11: on every store state, cleanup_expired(0) removes all the sessions
\* held and returns their number, and cleanup_expired with a maximum age
\* larger than every session's idle time removes none and returns 0.
C11_CleanupExpired ==
    /\ CleanupSessions(sessions, 0, now) = << >>
    /\ CleanupRet(sessions, 0, now) = Len(sessions)
    /\ \A m \in 0..(MaxTime + 1) :
          (\A i \in 1..Len(sessions) : m > now - sessions[i].last_accessed)
              => /\ CleanupSessions(sessions, m, now) = sessions
                 /\ CleanupRet(sessions, m, now) = 0

\* C30: cleanup_expired(m) removes exactly the sessions whose idle time,
\* now - last_accessed, is strictly greater than m, returns the number of
\* sessions it removed, and leaves the other sessions, token and timestamps,
\* as they were and in their order.
C30_CleanupRemovesIdleOnly ==
    \A m \in 0..(MaxTime + 1) :
        LET after == CleanupSessions(sessions, m, now)
            gone == {i \in 1..Len(sessions) : now - sessions[i].last_accessed > m}
            stay == (1..Len(sessions)) \ gone
        IN  /\ CleanupRet(sessions, m, now) = Cardinality(gone)
            /\ Len(after) = Cardinality(stay)
            /\ \A i \in stay :
                  after[Cardinality({j \in stay : j <= i})] = sessions[i]

\* cleanup_expired has just removed one session and kept another one, whose
\* idle time is exactly 0: a sweep of maximum age 0 keeps it.
C30_Witness ==
    /\ lastOp # None /\ lastOp[1].op = "cleanup_expired" /\ lastOp[1].removed = 1
    /\ Len(sessions) >= 1
    /\ \A i \in 1..Len(sessions) : now - sessions[i].last_accessed = 0
    /\ CleanupRet(sessions, 0, now) = 0

\* C31: delete_session(id) and invalidate_session(id) leave the store as it
\* was less the session stored under id: every other session keeps its
\* token and timestamps, get_token still returns its token and
\* find_session_by_token still resolves its access token to a session that
\* holds it; a second call, and a call for an id that is not stored, leave
\* the store as it is.
C31_DeleteRemovesOnlyThatSession ==
    \A sid \in SessionIds :
        LET d == DeleteSessions(sessions, sid)
            v == InvalidateSessions(sessions, sid)
        IN  /\ v = d
            /\ sid \notin Ids(d)
            /\ d = SelectSeq(sessions, LAMBDA e : e.sid # sid)
            /\ \A o \in Ids(sessions) \ {sid} :
                  /\ GetTokenRet(d, o) = GetTokenRet(sessions, o)
                  /\ FindRet(d, GetTokenRet(sessions, o)[1].access_token) # None
                  /\ GetTokenRet(d, FindRet(d, GetTokenRet(sessions, o)[1].access_token)[1])[1].access_token
                        = GetTokenRet(sessions, o)[1].access_token
            /\ DeleteSessions(d, sid) = d /\ InvalidateSessions(d, sid) = d
            /\ sid \notin Ids(sessions) => d = sessions

\* invalidate_session has just removed one of two sessions; the other one
\* is still stored and its token still resolves to it.
C31_Witness ==
    /\ lastOp # None /\ lastOp[1].op = "invalidate_session" /\ lastOp[1].removed = 1
    /\ Len(sessions) = 1
    /\ FindRet(sessions, sessions[1].token.access_token) = Some(sessions[1].sid)

----------------------------------------------------------------------------
(* Claims about the token proxy and the refresher *)

\* The stored token of sid is present and not expired within the buffer
\* at time t.
StillValid(s, sid, t) ==
    /\ GetTokenRet(s, sid) # None
    /\ GetTokenRet(s, sid)[1].created_at # None
    /\ t < (GetTokenRet(s, sid)[1].created_at[1] + GetTokenRet(s, sid)[1].expires_in)
              - oauth_refresh_buffer_seconds

\* C12: for a session whose stored token is not expired within the buffer
\* at either call, two ensure_valid_token calls in a row both return the
\* stored token, neither sends a request to the upstream (whatever it would
\* have answered), and the token stored for the session stays the same.
C12_ValidTokenReturnedTwice ==
    \A sid \in PxSessionIds, resp \in Upstream,
       t2 \in {now, now + oauth_refresh_buffer_seconds} :
        (StillValid(sessions, sid, now) /\ StillValid(sessions, sid, t2)) =>
            LET tok == GetTokenRet(sessions, sid)
                r1 == EnsureValidToken(sessions, sid, resp, max_sessions, now)
                r2 == EnsureValidToken(r1.sessions, sid, resp, max_sessions, t2)
            IN  /\ r1.ret = tok /\ r2.ret = tok
                /\ r1.raised = None /\ r2.raised = None
                /\ r1.sent = None /\ r2.sent = None
                /\ GetTokenRet(r2.sessions, sid) = tok
                /\ Ids(r2.sessions) = Ids(sessions)

\* ensure_valid_token has just returned the stored, still valid token of a
\* session without a request to the upstream, and a further call would too.
C12_Witness ==
    /\ lastResult # None
    /\ lastResult[1].op = "ensure_valid_token"
    /\ lastResult[1].resp = None
    /\ lastResult[1].ret # None
    /\ lastResult[1].ret = GetTokenRet(sessions, lastResult[1].session_id)
    /\ StillValid(sessions, lastResult[1].session_id, now)
    /\ Len(sessions) = 2

\* The stored token of sid is expired within the buffer at time t and
\* carries a refresh_token.
ExpiredWithRefreshToken(s, sid, t) ==
    /\ GetTokenRet(s, sid) # None
    /\ \/ GetTokenRet(s, sid)[1].created_at = None
       \/ t >= (GetTokenRet(s, sid)[1].created_at[1] + GetTokenRet(s, sid)[1].expires_in)
                  - oauth_refresh_buffer_seconds
    /\ GetTokenRet(s, sid)[1].refresh_token # None
    /\ GetTokenRet(s, sid)[1].refresh_token # Some(<< >>)

C14_RefreshNeverRaises ==
    \A sid \in PxSessionIds, resp \in Upstream :
        ExpiredWithRefreshToken(sessions, sid, now) =>
            LET r == EnsureValidToken(sessions, sid, resp, max_sessions, now)
            IN  /\ r.raised = None
                /\ r.ret = None => sid \notin Ids(r.sessions)

\* The 200 answers whose body normalizes to a token: a JSON object with an
\* access_token and a positive expires_in.
Normalizable == {resp \in Upstream200 : resp.parses /\ resp.body.access_token # None
                                        /\ resp.body.expires_in # None
                                        /\ resp.body.expires_in[1] > 0}

\* The token a normalizable answer stands for, stored under sid at time t.
Normalized(resp, sid, t) ==
    [access_token |-> resp.body.access_token[1], token_type |-> "Bearer",
     expires_in |-> resp.body.expires_in[1],
     refresh_token |-> resp.body.refresh_token, scope |-> None,
     session_id |-> Some(sid), created_at |-> Some(t)]

PreconditionMessages ==
    {<<"code required for authorization_code grant">>,
     <<"redirect_uri required for authorization_code grant">>,
     <<"refresh_token required for refresh_token grant">>,
     <<"Unsupported grant_type">>}

\* C16: exchange_token raises the local precondition error (ValueError),
\* sends nothing to the upstream and leaves the store as it was, when the
\* grant is authorization_code and code or redirect_uri is absent or empty,
\* when the grant is refresh_token and refresh_token is absent or empty,
\* and for every other grant_type.
C16_LocalPreconditionFailure ==
    \A a \in ExchangeArgs, resp \in Upstream :
        (\/ /\ a.grant_type = "authorization_code"
            /\ \/ a.code \in {None, Some(<< >>)}
               \/ a.redirect_uri \in {None, Some(<< >>)}
         \/ /\ a.grant_type = "refresh_token"
            /\ a.refresh_token \in {None, Some(<< >>)}
         \/ a.grant_type \notin {"authorization_code", "refresh_token"}) =>
            LET r == ExchangeToken(sessions, a, resp, max_sessions, now)
            IN  /\ r.raised = Some("ValueError")
                /\ r.msg \in PreconditionMessages
                /\ r.ret = None
                /\ r.sent = None
                /\ r.sessions = sessions

\* exchange_token has just raised ValueError for an authorization_code
\* grant without sending a request, on a store that holds sessions.
C16_Witness ==
    /\ lastResult # None
    /\ lastResult[1].op = "authorization_code"
    /\ lastResult[1].raised = Some("ValueError")
    /\ lastResult[1].resp = None
    /\ lastResult[1].ret = None
    /\ Len(sessions) = 2

\* C17: when the upstream answers a token exchange with a non-200 status,
\* exchange_token raises TokenProxyError with a message that carries the
\* upstream's error_description if the body has one, otherwise its error
\* field, otherwise the raw response text; nothing is stored and the store
\* is left as it was.
C17_UpstreamErrorSurfaced ==
    \A a \in ExchangeArgs, resp \in UpstreamErrors :
        ~MissingParameter(a) =>
            LET r == ExchangeToken(sessions, a, resp, max_sessions, now)
                carried == IF resp.body.error_description # None
                           THEN resp.body.error_description[1]
                           ELSE IF resp.body.error # None
                           THEN resp.body.error[1]
                           ELSE resp.text
            IN  /\ r.raised = Some("TokenProxyError")
                /\ r.msg = <<"Token exchange failed: ", carried>>
                /\ r.ret = None
                /\ r.sessions = sessions

\* C18: for every answer of the upstream with a JSON body,
\* proxy_token_request sends the client's form data unchanged and returns
\* exactly the upstream's body and exactly its status code.
C18_ProxyPassesThrough ==
    \A form \in FormData, sid \in PxSessionIds, resp \in Upstream :
        (resp.error = None /\ resp.parses) =>
            LET r == ProxyTokenRequest(sessions, form, sid, resp, max_sessions, now)
            IN  /\ r.sent = Some(form)
                /\ r.raised = None
                /\ r.ret = Some([body |-> resp.body, status |-> resp.status])

\* C19: proxy_token_request returns a (body, status) pair whatever the
\* upstream does and raises nothing; when the upstream cannot be reached
\* or its body is not JSON the pair is status 502 with error = server_error.
C19_ProxyNeverRaises ==
    \A form \in FormData, sid \in PxSessionIds, resp \in Upstream :
        LET r == ProxyTokenRequest(sessions, form, sid, resp, max_sessions, now)
        IN  /\ r.raised = None
            /\ r.ret # None
            /\ (resp.error # None \/ ~resp.parses) =>
                  /\ r.ret[1].status = 502
                  /\ r.ret[1].body.error = Some("server_error")

\* C20: the 502 bodies of the token proxy and of the authorization-server
\* metadata route do not depend on the exception: two failures that differ
\* only in the exception's text get the same response body.
C20_ErrorBodyIndependentOfException ==
    /\ \A form \in FormData, sid \in PxSessionIds, f1, f2 \in UpstreamFailures :
          ProxyTokenRequest(sessions, form, sid, f1, max_sessions, now).ret
              = ProxyTokenRequest(sessions, form, sid, f2, max_sessions, now).ret
    /\ \A o1, o2 \in MetadataOutcomes :
          (o1.raised # None /\ o1.raised = o2.raised)
              => MetadataHandler(o1) = MetadataHandler(o2)

\* C21: the session-aware provider's get_auth_header called without a
\* session id raises the precondition error (ValueError) without a call to
\* the refresher or the store; called with a session id it does what
\* ensure_valid_token does and returns {Authorization: "Bearer " followed by
\* the access_token} of the token ensure_valid_token returns, and absent,
\* without raising, when ensure_valid_token returns absent.
C21_SessionAwareHeader ==
    \A resp \in Upstream :
        /\ LET g == GetAuthHeader(sessions, None, resp, max_sessions, now)
           IN  /\ g.raised = Some("ValueError")
               /\ g.ret = None /\ g.sent = None
               /\ g.sessions = sessions
        /\ \A sid \in PxSessionIds :
              LET e == EnsureValidToken(sessions, sid, resp, max_sessions, now)
                  g == GetAuthHeader(sessions, Some(sid), resp, max_sessions, now)
              IN  e.raised = None =>
                      /\ g.raised = None
                      /\ g.sent = e.sent /\ g.sessions = e.sessions
                      /\ e.ret = None => g.ret = None
                      /\ e.ret # None =>
                            g.ret = Some([Authorization |->
                                            <<"B", "e", "a", "r", "e", "r", " ">>
                                                \o e.ret[1].access_token])

\* get_auth_header has just returned the header of the token B obtained by
\* a refresh, and the store holds that token for the session.
C21_Witness ==
    /\ lastResult # None
    /\ lastResult[1].op = "get_auth_header"
    /\ lastResult[1].session_id # None
    /\ lastResult[1].resp # None
    /\ lastResult[1].ret = Some([Authorization |-> BearerPrefix \o TokB])
    /\ GetTokenRet(sessions, lastResult[1].session_id[1]) # None
    /\ GetTokenRet(sessions, lastResult[1].session_id[1])[1].access_token = TokB

\* The stored token of sid is expired within the buffer at time t and
\* carries no refresh_token.
ExpiredWithoutRefreshToken(s, sid, t) ==
    /\ GetTokenRet(s, sid) # None
    /\ \/ GetTokenRet(s, sid)[1].created_at = None
       \/ t >= (GetTokenRet(s, sid)[1].created_at[1] + GetTokenRet(s, sid)[1].expires_in)
                  - oauth_refresh_buffer_seconds
    /\ GetTokenRet(s, sid)[1].refresh_token \in {None, Some(<< >>)}

\* C28: for a session whose stored token is expired within the buffer and
\* has no refresh_token, ensure_valid_token returns absent, sends nothing to
\* the upstream and leaves the store as it was less that session: the other
\* sessions keep their token and timestamps.
C28_ExpiredWithoutRefreshDeleted ==
    \A sid \in PxSessionIds, resp \in Upstream :
        ExpiredWithoutRefreshToken(sessions, sid, now) =>
            LET r == EnsureValidToken(sessions, sid, resp, max_sessions, now)
            IN  /\ r.ret = None /\ r.raised = None
                /\ r.sent = None
                /\ sid \notin Ids(r.sessions)
                /\ r.sessions = SelectSeq(sessions, LAMBDA d : d.sid # sid)

\* The store holds two sessions, one of them with an expired token without
\* refresh_token, and ensure_valid_token for it leaves only the other one.
C28_Witness ==
    /\ Len(sessions) = 2
    /\ \E sid \in PxSessionIds :
          /\ ExpiredWithoutRefreshToken(sessions, sid, now)
          /\ \A resp \in Upstream :
                LET r == EnsureValidToken(sessions, sid, resp, max_sessions, now)
                IN  Len(r.sessions) = 1 /\ r.sessions[1].sid # sid

\* C29: ensure_valid_token sends a request to the upstream only for a
\* session that has a stored token, expired within the buffer, with a
\* refresh_token; and for a session id the store does not know it returns
\* absent and the store stays as it was, without a session for that id.
C29_RequestOnlyForExpiredRefreshable ==
    \A sid \in PxSessionIds, resp \in Upstream :
        LET r == EnsureValidToken(sessions, sid, resp, max_sessions, now)
            tok == GetTokenRet(sessions, sid)
        IN  /\ r.sent # None =>
                  /\ tok # None
                  /\ \/ tok[1].created_at = None
                     \/ now >= (tok[1].created_at[1] + tok[1].expires_in)
                                  - oauth_refresh_buffer_seconds
                  /\ tok[1].refresh_token \notin {None, Some(<< >>)}
            /\ sid \notin Ids(sessions) =>
                  /\ r.ret = None /\ r.raised = None /\ r.sent = None
                  /\ r.sessions = sessions

\* ensure_valid_token has just refreshed the expired token of a session and
\* returned the new token A, while the id of the other session is unknown.
C29_Witness ==
    /\ lastResult # None
    /\ lastResult[1].op = "ensure_valid_token"
    /\ lastResult[1].resp # None
    /\ lastResult[1].resp[1].error = None /\ lastResult[1].resp[1].status = 200
    /\ lastResult[1].ret # None
    /\ lastResult[1].ret[1].access_token = TokA
    /\ Ids(sessions) = {lastResult[1].session_id}

\* The tokens and buffers is_expired is tried on: never stamped, created
\* now or one buffer length ago; lifetimes and buffers of half a buffer
\* length, one and two.
ExpiryTokens ==
    {[created_at |-> c, expires_in |-> e] :
        c \in {None, Some(now), Some(now - oauth_refresh_buffer_seconds)},
        e \in {30, oauth_refresh_buffer_seconds, 2 * oauth_refresh_buffer_seconds}}

ExpiryBuffers == {0, 30, oauth_refresh_buffer_seconds, 2 * oauth_refresh_buffer_seconds}

\* C33: is_expired(b) is true exactly when created_at is absent or
\* now >= created_at + expires_in - b; so it stays true as time advances
\* and as b grows, and a token whose expires_in is at most b is expired at
\* the moment of its creation.
C33_IsExpiredExact ==
    \A tok \in ExpiryTokens, b \in ExpiryBuffers :
        /\ IsExpired(tok, b, now)
              <=> (tok.created_at = None \/ now >= tok.created_at[1] + tok.expires_in - b)
        /\ IsExpired(tok, b, now) =>
              /\ \A later \in {now + 1, now + 30, now + oauth_refresh_buffer_seconds} :
                    IsExpired(tok, b, later)
              /\ \A larger \in {c \in ExpiryBuffers : c >= b} : IsExpired(tok, larger, now)
        /\ (tok.created_at = Some(now) /\ tok.expires_in <= b) => IsExpired(tok, b, now)

\* The store holds a token that the refresher, with its buffer, finds
\* expired and that is_expired() without buffer finds valid.
C33_Witness ==
    \E sid \in PxSessionIds :
        /\ GetTokenRet(sessions, sid) # None
        /\ IsExpired(GetTokenRet(sessions, sid)[1], oauth_refresh_buffer_seconds, now)
        /\ ~IsExpired(GetTokenRet(sessions, sid)[1], 0, now)
        /\ now = GetTokenRet(sessions, sid)[1].created_at[1] + oauth_refresh_buffer_seconds

\* The answers to a refresh: those of the upstream, and one that rotates the
\* refresh_token.
RefreshAnswers ==
    Upstream \cup
        {Response(200, TRUE, TRUE, Json(Some(TokB), Some(120), Some(<<"r", "2">>), None, None), "raw")}

\* C38: when ensure_valid_token has sent a refresh and returns a token, the
\* token it returns and the token then stored for the session carry the
\* refresh_token of the upstream's response, and none when the response has
\* none, whatever refresh_token the token stored before carried.
C38_RefreshTokenFromResponse ==
    \A sid \in PxSessionIds, resp \in RefreshAnswers :
        LET r == EnsureValidToken(sessions, sid, resp, max_sessions, now)
        IN  (r.sent # None /\ r.raised = None /\ r.ret # None) =>
                /\ r.ret[1].refresh_token = resp.body.refresh_token
                /\ GetTokenRet(r.sessions, sid) # None
                /\ GetTokenRet(r.sessions, sid)[1].refresh_token = resp.body.refresh_token
                /\ GetTokenRet(r.sessions, sid)[1].access_token = resp.body.access_token[1]

\* ensure_valid_token has just refreshed a session with an answer that has
\* no refresh_token: the token stored now has none.
C38_Witness ==
    /\ lastResult # None /\ lastResult[1].op = "ensure_valid_token"
    /\ lastResult[1].resp # None /\ lastResult[1].resp[1].body.refresh_token = None
    /\ lastResult[1].ret # None /\ lastResult[1].raised = None
    /\ GetTokenRet(sessions, lastResult[1].session_id) # None
    /\ GetTokenRet(sessions, lastResult[1].session_id)[1].refresh_token = None
    /\ GetTokenRet(sessions, lastResult[1].session_id)[1].created_at = Some(now)

----------------------------------------------------------------------------
(* Claims about the client-credentials provider *)

\* The tasks whose token request is in flight.
InFlight == {k \in Tasks : pc[k] = "post"}

\* C22: whatever number of tasks call get_auth_header concurrently, at most
\* one upstream token request is in flight at any time; a request is issued
\* only while no token is held or the held token is expired; and when the
\* one request issued so far succeeded with a token that is still valid, no
\* second request has been issued and every caller that has returned holds
\* the header of that shared token.
C22_SingleFlight ==
    /\ [](Cardinality(InFlight) <= 1)
    /\ [][requests'.issued > requests.issued =>
             \/ cc_token = None
             \/ now >= cc_token[1].created_at + cc_token[1].expires_in]_vars
    /\ []((/\ requests.failed = 0
           /\ requests.stored = 1
           /\ now < cc_token[1].created_at + cc_token[1].expires_in)
            => /\ requests.issued = 1
               /\ \A k \in Tasks :
                     pc[k] = "done" =>
                        header[k] = Some([Authorization |->
                                            <<"B", "e", "a", "r", "e", "r", " ">>
                                                \o cc_token[1].access_token]))

\* Every task has called get_auth_header and returned, one request was
\* issued, and a task other than the one that sent it returned the header
\* of the token B that request obtained.
C22_Witness ==
    /\ \A k \in Tasks : pc[k] = "done" /\ header[k] = Some(AuthorizationHeader(cc_token[1]))
    /\ requests = [issued |-> 1, failed |-> 0, stored |-> 1]
    /\ cc_token[1].access_token = TokB
    /\ now < cc_token[1].created_at + cc_token[1].expires_in

----------------------------------------------------------------------------
(* Claims about the stateless routes *)

\* The settings hold both DCR credentials.
Configured ==
    /\ config.oauth_dcr_client_id \notin {None, Some(<< >>)}
    /\ config.oauth_dcr_client_secret \notin {None, Some(<< >>)}

\* C23: with both DCR credentials configured, for every client metadata
\* object handle_client_registration returns client_id and client_secret
\* equal to the configuration and client_secret_expires_at = 0; every
\* echoable field the request supplies is in the response with the
\* request's value; grant_types, response_types and
\* token_endpoint_auth_method are [authorization_code], [code] and
\* client_secret_post when the request omits them; and an echoable field
\* without default that the request omits is not in the response.
C23_RegistrationResponse ==
    Configured =>
        \A d \in RegistrationRequests :
            LET r == HandleClientRegistration(config, d, now)
                echoable == {"redirect_uris", "client_name", "client_uri", "logo_uri",
                             "scope", "contacts", "tos_uri", "policy_uri", "jwks_uri",
                             "jwks", "software_id", "software_version", "grant_types",
                             "response_types", "token_endpoint_auth_method"}
                defaulted == {"grant_types", "response_types", "token_endpoint_auth_method"}
                Has(f, v) == f \in DOMAIN r.ret[1] /\ r.ret[1][f] = v
            IN  /\ r.raised = None /\ r.ret # None
                /\ Has("client_id", config.oauth_dcr_client_id[1])
                /\ Has("client_secret", config.oauth_dcr_client_secret[1])
                /\ Has("client_secret_expires_at", 0)
                /\ \A f \in echoable \cap DOMAIN d : Has(f, d[f])
                /\ "grant_types" \notin DOMAIN d => Has("grant_types", <<"authorization_code">>)
                /\ "response_types" \notin DOMAIN d => Has("response_types", <<"code">>)
                /\ "token_endpoint_auth_method" \notin DOMAIN d
                      => Has("token_endpoint_auth_method", "client_secret_post")
                /\ \A f \in (echoable \ defaulted) \ DOMAIN d : f \notin DOMAIN r.ret[1]

\* POST /register has just answered 201 to a request that supplies
\* client_name and grant_types and omits redirect_uris and response_types.
C23_Witness ==
    /\ Configured
    /\ lastResult # None
    /\ lastResult[1].op = "register"
    /\ lastResult[1].request # None
    /\ {"client_name", "grant_types"} \subseteq DOMAIN lastResult[1].request[1]
    /\ {"redirect_uris", "response_types"} \cap DOMAIN lastResult[1].request[1] = {}
    /\ lastResult[1].response.status = 201
    /\ lastResult[1].response.body.client_name = "app"
    /\ lastResult[1].response.body.response_types = <<"code">>
    /\ "redirect_uris" \notin DOMAIN lastResult[1].response.body

\* C24: when the configured DCR client id or the configured DCR client
\* secret, either one, is absent or empty, handle_client_registration raises
\* DCRError for every request, and POST /register answers 400 with
\* error = invalid_request and a body without credentials.
C24_UnconfiguredRegistrationRefused ==
    (\/ config.oauth_dcr_client_id \in {None, Some(<< >>)}
     \/ config.oauth_dcr_client_secret \in {None, Some(<< >>)})
        => /\ \A d \in RegistrationRequests :
                 LET r == HandleClientRegistration(config, d, now)
                 IN  r.raised = Some("DCRError") /\ r.ret = None
           /\ \A raw \in RegisterBodies :
                 LET a == RegisterHandler(config, raw, now)
                 IN  /\ a.status = 400
                     /\ "error" \in DOMAIN a.body /\ a.body.error = "invalid_request"
                     /\ DOMAIN a.body \cap {"client_id", "client_secret"} = {}

\* POST /register has just answered 400 under settings whose client id is
\* the empty string and whose client secret is set.
C24_Witness ==
    /\ config.oauth_dcr_client_id = Some(<< >>)
    /\ config.oauth_dcr_client_secret = Some(<<"k">>)
    /\ lastResult # None
    /\ lastResult[1].op = "register"
    /\ lastResult[1].request # None
    /\ lastResult[1].response.status = 400

\* The positions of a list of methods that do not hold "none".
Kept(methods) == {i \in 1..Len(methods) : methods[i] # "none"}

\* C25: the document the metadata proxy returns has the keys of the
\* upstream document and the three endpoints; registration_endpoint,
\* token_endpoint and authorization_endpoint are this server's base URL
\* followed by /register, /oauth/token and /authorize;
\* token_endpoint_auth_methods_supported, present exactly when the upstream
\* has it, is the upstream list without "none", the other methods kept in
\* order; and every other key has the upstream's value.
C25_MetadataRewritten ==
    \A d \in UpstreamDocuments :
        LET o == ProxyAuthorizationServerMetadata(config, Response(200, TRUE, TRUE, d, "raw"))
            m == o.metadata[1]
            endpoints == {"registration_endpoint", "token_endpoint", "authorization_endpoint"}
            methods == "token_endpoint_auth_methods_supported"
        IN  /\ o.raised = None /\ o.metadata # None
            /\ DOMAIN m = DOMAIN d \cup endpoints
            /\ m.registration_endpoint = config.mcp_server_url \o "/register"
            /\ m.token_endpoint = config.mcp_server_url \o "/oauth/token"
            /\ m.authorization_endpoint = config.mcp_server_url \o "/authorize"
            /\ methods \in DOMAIN d =>
                  /\ Len(m[methods]) = Cardinality(Kept(d[methods]))
                  /\ \A i \in 1..Len(m[methods]) :
                        /\ m[methods][i] # "none"
                        /\ \E j \in Kept(d[methods]) :
                              /\ Cardinality({k \in Kept(d[methods]) : k <= j}) = i
                              /\ m[methods][i] = d[methods][j]
            /\ \A f \in DOMAIN d \ (endpoints \cup {methods}) : m[f] = d[f]

\* The metadata route has just answered 200 for an upstream document that
\* lists "none" between other methods and has no registration_endpoint.
C25_Witness ==
    /\ lastResult # None
    /\ lastResult[1].op = "metadata"
    /\ lastResult[1].request.error = None
    /\ lastResult[1].response.status = 200
    /\ "registration_endpoint" \notin DOMAIN lastResult[1].request.body
    /\ "token_endpoint_auth_methods_supported" \in DOMAIN lastResult[1].request.body
    /\ lastResult[1].request.body.token_endpoint_auth_methods_supported
          = <<"none", "client_secret_basic", "none">>
    /\ lastResult[1].response.body.token_endpoint_auth_methods_supported
          = <<"client_secret_basic">>
    /\ lastResult[1].response.body.registration_endpoint = "https://mcp.example/base/register"

\* The upstream's answers that are a failure to fetch or parse the document.
FailedAnswers ==
    {resp \in MetadataAnswers :
        \/ resp.error # None
        \/ resp.status # 200
        \/ ~resp.parses}

\* C26: when the fetch of the upstream metadata fails (no connection, a
\* timeout, a status that is not a success, a body that does not parse) the
\* metadata route answers 502 with error = upstream_error and a body with
\* nothing but error and error_description.
C26_MetadataFailureIs502 ==
    \A resp \in FailedAnswers :
        LET a == MetadataHandler(ProxyAuthorizationServerMetadata(config, resp))
        IN  /\ a.status = 502
            /\ DOMAIN a.body = {"error", "error_description"}
            /\ a.body.error = "upstream_error"

\* The metadata route has just answered 502 to an upstream answer of status
\* 500 whose body is a metadata document.
C26_Witness ==
    /\ lastResult # None
    /\ lastResult[1].op = "metadata"
    /\ lastResult[1].request.error = None
    /\ lastResult[1].request.status = 500
    /\ lastResult[1].request.parses
    /\ lastResult[1].response.status = 502
    /\ lastResult[1].response.body.error = "upstream_error"

\* How many times the pair p occurs in the query q.
Occurrences(q, p) == Cardinality({i \in 1..Len(q) : q[i] = p})

\* C27: GET /authorize answers 302 with the upstream authorization endpoint
\* as Location, and the query of the Location carries every pair of the
\* request's query, every value of a repeated name included, and no other.
C27_AuthorizeForwardsQuery ==
    \A q \in Queries :
        LET a == AuthorizeHandler(config, q)
        IN  /\ a.status = 302
            /\ a.location.url = config.oauth_server_url \o "/oauth2.1/authorize"
            /\ \A p \in QueryPairs :
                  Occurrences(a.location.query, p) = Occurrences(q, p)

\* A registration request that supplies, beside two echoable keys, every
\* key of the fixed part and a key outside the echo list.
OverridingRegistration ==
    [client_name |-> "app",
     grant_types |-> <<"refresh_token">>,
     client_id |-> <<"x">>,
     client_secret |-> <<"y">>,
     client_id_issued_at |-> 0 - 1,
     client_secret_expires_at |-> 99,
     software_statement |-> "jwt"]

OverridingRequests ==
    {Restrict(OverridingRegistration, keys) : keys \in SUBSET DOMAIN OverridingRegistration}

\* C39: with both DCR credentials configured, whatever keys of the fixed
\* part the request supplies, the registration response carries the
\* configured client_id and client_secret, the time of the call as
\* client_id_issued_at and client_secret_expires_at = 0; and every key of the
\* response is one of these four or a key of the echo list.
C39_CredentialsNotOverridden ==
    Configured =>
        \A d \in OverridingRequests \cup RegistrationRequests :
            LET r == RegisterHandler(config, Some(d), now)
                echoable == {"redirect_uris", "client_name", "client_uri", "logo_uri",
                             "scope", "contacts", "tos_uri", "policy_uri", "jwks_uri",
                             "jwks", "software_id", "software_version", "grant_types",
                             "response_types", "token_endpoint_auth_method"}
                fixed == {"client_id", "client_secret", "client_id_issued_at",
                          "client_secret_expires_at"}
            IN  /\ r.status = 201
                /\ fixed \subseteq DOMAIN r.body
                /\ r.body.client_id = config.oauth_dcr_client_id[1]
                /\ r.body.client_secret = config.oauth_dcr_client_secret[1]
                /\ r.body.client_id_issued_at = now
                /\ r.body.client_secret_expires_at = 0
                /\ DOMAIN r.body \subseteq fixed \cup echoable
                /\ DOMAIN r.body \cap DOMAIN d \subseteq echoable \cup fixed
                /\ \A f \in DOMAIN d \ (echoable \cup fixed) : f \notin DOMAIN r.body

\* POST /register has just answered 201 to a request that supplies client_id
\* and client_secret_expires_at: the response carries the configured
\* client_id and 0.
C39_Witness ==
    /\ Configured
    /\ lastResult # None
    /\ lastResult[1].op = "register"
    /\ lastResult[1].request # None
    /\ {"client_id", "client_secret_expires_at"} \subseteq DOMAIN lastResult[1].request[1]
    /\ lastResult[1].request[1].client_id # config.oauth_dcr_client_id[1]
    /\ lastResult[1].response.status = 201
    /\ lastResult[1].response.body.client_id = config.oauth_dcr_client_id[1]
    /\ lastResult[1].response.body.client_secret_expires_at = 0

----------------------------------------------------------------------------
(* Claims about the session id of a request *)

\* A UUID-like shape, hyphenated or not, in either case: 32 hex digits and
\* nothing else but hyphens.
UuidShaped(s) ==
    /\ \A i \in 1..Len(s) : s[i] \in HexDigits \cup {"-"}
    /\ Cardinality({i \in 1..Len(s) : s[i] \in HexDigits}) = 32

\* C32: get_session_id_from_request returns the X-Session-ID header when it
\* is UUID-shaped, otherwise the session_id parameter when it is
\* UUID-shaped, otherwise the generated UUID; and whatever it returns is
\* UUID-shaped.
C32_SessionIdIsUuidShaped ==
    lastResult # None =>
        LET h == lastResult[1].header
            q == lastResult[1].param
            ret == lastResult[1].ret
            headerOk == h # None /\ UuidShaped(h[1])
            paramOk == q # None /\ UuidShaped(q[1])
        IN  /\ UuidShaped(ret)
            /\ headerOk => ret = h[1]
            /\ (~headerOk /\ paramOk) => ret = q[1]
            /\ (~headerOk /\ ~paramOk) => ret = lastResult[1].fresh

----------------------------------------------------------------------------
(* Claims about concurrent connections *)

\* The task that holds the store's lock, if any.
Holder == IF store_lock = << >> THEN {} ELSE {Head(store_lock)}

\* The tasks that have called acquire() and not left the lock yet.
AtLock == {store_lock[i] : i \in 1..Len(store_lock)}

\* C34: a task suspended on the POST to the upstream neither holds the
\* store's lock nor waits for it, in exchange_token, proxy_token_request and
\* ensure_valid_token alike; a task is at the lock only for one store
\* operation, get_token, set_token or delete_session.
C34_NoNetworkUnderLock ==
    \A k \in ConnTasks :
        /\ conn[k].pc = "net" => (k \notin Holder /\ k \notin AtLock)
        /\ k \in AtLock <=> conn[k].pc \in {"get", "set", "delete"}
        /\ Cardinality({i \in 1..Len(store_lock) : store_lock[i] = k}) <= 1

\* One task waits for the upstream's answer to its refresh while the other
\* has the store's lock for its own operation.
C34_Witness ==
    \E k, j \in ConnTasks :
        /\ conn[k].pc = "net" /\ conn[k].op = "ensure_valid_token"
        /\ conn[j].pc = "delete" /\ conn[j].op = "invalidate_session"
        /\ Holder = {j}

\* C35: whatever the interleaving of the calls, when ensure_valid_token
\* deletes a session the token stored for it at that moment is expired
\* within the buffer (or there is none): a token another caller's refresh
\* has just stored is not deleted.
C35_NoValidTokenDeleted ==
    (/\ lastOp # None
     /\ lastOp[1].op = "delete_session"
     /\ lastOp[1].call = "ensure_valid_token")
        => \/ lastOp[1].before = None
           \/ lastOp[1].before[1].created_at = None
           \/ now >= (lastOp[1].before[1].created_at[1] + lastOp[1].before[1].expires_in)
                        - oauth_refresh_buffer_seconds

\* C36: a session id that invalidate_session has removed is not in the
\* store as long as no exchange started after the invalidation has stored a
\* token for it: an exchange in flight at the invalidation does not bring
\* the session back.
C36_InvalidatedStaysAbsent ==
    \A sid \in invalidated : sid \notin Ids(sessions)

====
